---- MODULE Spec2Model ----
(***************************************************************************)
(* Argument Clinic (Tools/clinic/clinic.py): the optional-group            *)
(* permutation, the DSL parser, and the block I/O engine of Clinic.parse.  *)
(***************************************************************************)
EXTENDS Integers, Sequences, FiniteSets, TLC

\* ------------------------------------------------------------------------
\* Bounds of the model
\* ------------------------------------------------------------------------
MaxGroups == 2
MaxGroupSize == 2
MaxRequired == 2

\* most lines of the parameter section the model feeds to one block
MaxHist == 5
\* longest docstring (in lines) the model lets a block accumulate
MaxDocLines == 1

VARIABLES
    pg,       \* one call of permute_optional_groups: arguments, result
    dsl,      \* the DSLParser object (fields of DSLParser.reset)
    clinic,   \* the Clinic object
    block,    \* the Block being parsed
    err,      \* the exception that ended processing ("" while none was raised)
    line,     \* the class of the line the parse loop handed to the parser last
    hist,     \* the markers and parameters state_parameter accepted, in order
    pc,       \* where DSLParser.parse stands ("idle", "lines", "done"), or where
              \* parse_file stands ("idle", "blocks", "parsed", "written", "failed")
    files,    \* the file system: the host file and the sidecar of preset 'file'
    run       \* the current call of parse_file: options, BlockParser, BlockPrinter

vars == <<pg, dsl, clinic, block, err, line, hist, pc, files, run>>

\* ------------------------------------------------------------------------
\* Sequence helpers
\* ------------------------------------------------------------------------
RECURSIVE Flatten(_)
Flatten(ss) == IF ss = <<>> THEN <<>> ELSE Head(ss) \o Flatten(Tail(ss))

Reverse(s) == [i \in 1..Len(s) |-> s[Len(s) + 1 - i]]

RECURSIVE SumSeq(_)
SumSeq(s) == IF s = <<>> THEN 0 ELSE Head(s) + SumSeq(Tail(s))

\* ------------------------------------------------------------------------
\* permute_optional_groups (clinic.py 88-152)
\* ------------------------------------------------------------------------
\* accumulator after n groups of reversed(l): accumulator = list(group) + accumulator
RECURSIVE LeftAccumulator(_, _)
LeftAccumulator(l, n) ==
    IF n = 0 THEN <<>> ELSE l[Len(l) + 1 - n] \o LeftAccumulator(l, n - 1)

\* a variant that accumulates the groups from the front
permute_left_from_front(l) ==
    [i \in 1..(Len(l) + 1) |-> Flatten(SubSeq(l, 1, i - 1))]

\* yields tuple(), then tuple(accumulator) after every group
permute_left_option_groups(l) ==
    [i \in 1..(Len(l) + 1) |-> LeftAccumulator(l, i - 1)]

\* accumulator after n groups of l: accumulator.extend(group)
RECURSIVE RightAccumulator(_, _)
RightAccumulator(l, n) ==
    IF n = 0 THEN <<>> ELSE RightAccumulator(l, n - 1) \o l[n]

permute_right_option_groups(l) ==
    [i \in 1..(Len(l) + 1) |-> RightAccumulator(l, i - 1)]

\* accumulator.sort(key=len): a stable insertion sort on the tuple length
RECURSIVE SortByLen(_)
SortByLen(acc) ==
    IF acc = <<>> THEN <<>>
    ELSE LET sorted == SortByLen(SubSeq(acc, 1, Len(acc) - 1))
             t == acc[Len(acc)]
             k == Cardinality({i \in 1..Len(sorted) : Len(sorted[i]) <= Len(t)})
         IN  SubSeq(sorted, 1, k) \o <<t>> \o SubSeq(sorted, k + 1, Len(sorted))

\* a variant with the loops exchanged: for l in left: for r in right
RECURSIVE PermuteLoopLeftOuter(_, _, _, _, _, _)
PermuteLoopLeftOuter(ls, rs, required, ri, li, acc) ==
    IF li > Len(ls) THEN acc
    ELSE IF ri > Len(rs) THEN PermuteLoopLeftOuter(ls, rs, required, 1, li + 1, acc)
    ELSE LET t == ls[li] \o required \o rs[ri]
         IN  IF \E i \in 1..Len(acc) : Len(acc[i]) = Len(t)
             THEN PermuteLoopLeftOuter(ls, rs, required, ri + 1, li, acc)
             ELSE PermuteLoopLeftOuter(ls, rs, required, ri + 1, li, Append(acc, t))

\* the two nested loops: for r in right-permutations: for l in left-permutations
RECURSIVE PermuteLoop(_, _, _, _, _, _)
PermuteLoop(ls, rs, required, ri, li, acc) ==
    IF ri > Len(rs) THEN acc
    ELSE IF li > Len(ls) THEN PermuteLoop(ls, rs, required, ri + 1, 1, acc)
    ELSE LET t == ls[li] \o required \o rs[ri]
         IN  IF \E i \in 1..Len(acc) : Len(acc[i]) = Len(t)
             THEN PermuteLoop(ls, rs, required, ri, li + 1, acc)
             ELSE PermuteLoop(ls, rs, required, ri, li + 1, Append(acc, t))

permute_optional_groups(left, required, right) ==
    SortByLen(PermuteLoop(permute_left_option_groups(left),
                          permute_right_option_groups(right),
                          required, 1, 1, <<>>))

\* raise ValueError("required is empty but left is not")
permute_raises(left, required) == required = <<>> /\ left # <<>>

\* ------------------------------------------------------------------------
\* Lines of a block: leading spaces, the words of the line, tab present
\* ------------------------------------------------------------------------
Ln(i, t) == [indent |-> i, toks |-> t, tab |-> FALSE]

NoVersion == <<>>

\* DSLParser.parse_version: "major.minor" -> (major, minor); <<>> is ValueError
parse_version(tok) ==
    CASE tok = "[from 3.14]" -> <<3, 14>>
      [] tok = "[from 3.15]" -> <<3, 15>>
      [] OTHER -> <<>>

\* from_version_re: ([*/]) +\[from +(.+)\]
IsFromToken(tok) == tok \in {"[from 3.14]", "[from 3.15]", "[from 3]"}

\* tuple comparison of two version tuples
VersionLess(a, b) == a[1] < b[1] \/ (a[1] = b[1] /\ a[2] < b[2])

\* ------------------------------------------------------------------------
\* The context the parser's handlers read and write
\* ------------------------------------------------------------------------
Ctx(d, c, b, e, h) == [dsl |-> d, clinic |-> c, block |-> b, err |-> e, hist |-> h]

\* libclinic.fail(): raise ClinicError
Fail(ctx, msg) == [ctx EXCEPT !.err = msg]

CurFunction(ctx) == ctx.clinic.functions[ctx.dsl.function]
Params(ctx) == CurFunction(ctx).parameters

SetParams(ctx, ps) ==
    [ctx EXCEPT !.clinic.functions[ctx.dsl.function].parameters = ps]

Note(ctx, sym, ver, key) ==
    [ctx EXCEPT !.hist = Append(@, [sym |-> sym, ver |-> ver, key |-> key])]

\* ------------------------------------------------------------------------
\* IndentStack (clinic.py 2118-2189)
\* ------------------------------------------------------------------------
IndentStack == [indents |-> <<>>, margin |-> -1]

Top(ind) == ind.indents[Len(ind.indents)]

\* IndentStack.measure: [fail, v]
measure(ind, ln) ==
    IF ln.tab THEN [fail |-> "Tab characters are illegal", v |-> 0]
    ELSE IF ln.toks = <<>>
         THEN IF ind.indents = <<>>
              THEN [fail |-> "IndentStack expected indents", v |-> 0]
              ELSE [fail |-> "", v |-> Top(ind)]
         ELSE [fail |-> "", v |-> ln.indent]

\* the while loop of infer: pop until the top equals indent
RECURSIVE PopTo(_, _)
PopTo(indents, indent) ==
    IF indents[Len(indents)] = indent THEN indents
    ELSE PopTo(SubSeq(indents, 1, Len(indents) - 1), indent)

\* infer with an outdent that leaves the stack of columns as it is
infer_keeps_stack(ind, ln) ==
    LET m == measure(ind, ln)
        indent == m.v
        pushed == [indents |-> Append(ind.indents, indent), margin |-> indent]
    IN  IF m.fail # "" THEN [fail |-> m.fail, r |-> 0, ind |-> ind]
        ELSE IF ind.indents = <<>> THEN [fail |-> "", r |-> 1, ind |-> pushed]
        ELSE IF indent = Top(ind) THEN [fail |-> "", r |-> 0, ind |-> ind]
        ELSE IF indent > Top(ind) THEN [fail |-> "", r |-> 1, ind |-> pushed]
        ELSE IF ~(\E i \in 1..Len(ind.indents) : ind.indents[i] = indent)
             THEN [fail |-> "Illegal outdent.", r |-> 0, ind |-> ind]
             ELSE [fail |-> "",
                   r |-> Len(PopTo(ind.indents, indent)) - Len(ind.indents),
                   ind |-> [indents |-> ind.indents, margin |-> indent]]

\* IndentStack.infer: [fail, r, ind]
infer(ind, ln) ==
    LET m == measure(ind, ln)
        indent == m.v
        pushed == [indents |-> Append(ind.indents, indent), margin |-> indent]
    IN  IF m.fail # "" THEN [fail |-> m.fail, r |-> 0, ind |-> ind]
        ELSE IF ind.indents = <<>> THEN [fail |-> "", r |-> 1, ind |-> pushed]
        ELSE IF indent = Top(ind) THEN [fail |-> "", r |-> 0, ind |-> ind]
        ELSE IF indent > Top(ind) THEN [fail |-> "", r |-> 1, ind |-> pushed]
        ELSE IF ~(\E i \in 1..Len(ind.indents) : ind.indents[i] = indent)
             THEN [fail |-> "Illegal outdent.", r |-> 0, ind |-> ind]
             ELSE LET popped == PopTo(ind.indents, indent)
                  IN  [fail |-> "",
                       r |-> Len(popped) - Len(ind.indents),
                       ind |-> [indents |-> popped, margin |-> indent]]

\* IndentStack.depth
depth(ind) == Len(ind.indents)

\* ------------------------------------------------------------------------
\* DSLParser: the parameter section (clinic.py 2774-3252, 3534-3561)
\* ------------------------------------------------------------------------
\* a Parameter that never carries deprecated_positional
ParameterUnmarked(name, kind, conv, default, group, dp) ==
    [key |-> <<name>>, name |-> name, c_name |-> "", kind |-> kind, conv |-> conv,
     default |-> default, group |-> group, deprecated_positional |-> NoVersion,
     deprecated_keyword |-> NoVersion, docstring |-> <<>>]

\* Parameter(name, kind, converter=, default=, group=, deprecated_positional=)
Parameter(name, kind, conv, default, group, dp) ==
    [key |-> <<name>>, name |-> name, c_name |-> "", kind |-> kind, conv |-> conv,
     default |-> default, group |-> group, deprecated_positional |-> dp,
     deprecated_keyword |-> NoVersion, docstring |-> <<>>]

is_vararg(p) == p.kind = "VAR_POSITIONAL"
is_positional_only(p) == p.kind = "POSITIONAL_ONLY"
is_keyword_only(p) == p.kind = "KEYWORD_ONLY"

\* to_required without the negation of the ids assigned so far
to_required_keeps_sign(ctx) ==
    IF ctx.dsl.parameter_state # "REQUIRED"
    THEN [ctx EXCEPT !.dsl.parameter_state = "REQUIRED"]
    ELSE ctx

\* DSLParser.to_required
to_required(ctx) ==
    IF ctx.dsl.parameter_state # "REQUIRED"
    THEN LET ps == Params(ctx)
             neg == [i \in 1..Len(ps) |-> [ps[i] EXCEPT !.group = -(ps[i].group)]]
         IN  SetParams([ctx EXCEPT !.dsl.parameter_state = "REQUIRED"], neg)
    ELSE ctx

\* DSLParser.check_remaining_star: TRUE when it fails
check_remaining_star(ctx) ==
    LET d == ctx.dsl
        ps == Params(ctx)
        last == ps[Len(ps)]
    IN  IF d.keyword_only
        THEN ~(ps # <<>> /\ last.kind = "KEYWORD_ONLY")
        ELSE IF d.deprecated_positional # NoVersion
        THEN ~(ps # <<>> /\ last.deprecated_positional = d.deprecated_positional)
        ELSE FALSE

\* DSLParser.check_previous_star: TRUE when it fails
check_previous_star(ctx) ==
    \E i \in 1..Len(Params(ctx)) : is_vararg(Params(ctx)[i])

\* parse_star accepting a second unversioned '*'
parse_star_again(ctx, version) ==
    LET d == ctx.dsl IN
    IF version = NoVersion
    THEN IF check_previous_star(ctx) THEN Fail(ctx, "uses '*' more than once")
         ELSE IF check_remaining_star(ctx)
              THEN Fail(ctx, "specifies marker without following parameters")
         ELSE [ctx EXCEPT !.dsl.keyword_only = TRUE,
                          !.dsl.deprecated_positional = version]
    ELSE IF d.keyword_only THEN Fail(ctx, "'* [from ...]' must precede '*'")
         ELSE IF d.deprecated_positional # NoVersion
                 /\ d.deprecated_positional = version
              THEN Fail(ctx, "uses '* [from v]' more than once")
         ELSE IF d.deprecated_positional # NoVersion
                 /\ VersionLess(d.deprecated_positional, version)
              THEN Fail(ctx, "'* [from v]' must precede '* [from w]'")
         ELSE [ctx EXCEPT !.dsl.deprecated_positional = version]

\* parse_star accepting '* [from v]' after '*'
parse_star_versioned_after_star(ctx, version) ==
    LET d == ctx.dsl IN
    IF version = NoVersion
    THEN IF d.keyword_only THEN Fail(ctx, "uses '*' more than once")
         ELSE IF check_previous_star(ctx) THEN Fail(ctx, "uses '*' more than once")
         ELSE IF check_remaining_star(ctx)
              THEN Fail(ctx, "specifies marker without following parameters")
         ELSE [ctx EXCEPT !.dsl.keyword_only = TRUE,
                          !.dsl.deprecated_positional = version]
    ELSE IF d.deprecated_positional # NoVersion
                 /\ d.deprecated_positional = version
              THEN Fail(ctx, "uses '* [from v]' more than once")
         ELSE IF d.deprecated_positional # NoVersion
                 /\ VersionLess(d.deprecated_positional, version)
              THEN Fail(ctx, "'* [from v]' must precede '* [from w]'")
         ELSE [ctx EXCEPT !.dsl.deprecated_positional = version]

\* DSLParser.parse_star
parse_star(ctx, version) ==
    LET d == ctx.dsl IN
    IF version = NoVersion
    THEN IF d.keyword_only THEN Fail(ctx, "uses '*' more than once")
         ELSE IF check_previous_star(ctx) THEN Fail(ctx, "uses '*' more than once")
         ELSE IF check_remaining_star(ctx)
              THEN Fail(ctx, "specifies marker without following parameters")
         ELSE [ctx EXCEPT !.dsl.keyword_only = TRUE,
                          !.dsl.deprecated_positional = version]
    ELSE IF d.keyword_only THEN Fail(ctx, "'* [from ...]' must precede '*'")
         ELSE IF d.deprecated_positional # NoVersion
                 /\ d.deprecated_positional = version
              THEN Fail(ctx, "uses '* [from v]' more than once")
         ELSE IF d.deprecated_positional # NoVersion
                 /\ VersionLess(d.deprecated_positional, version)
              THEN Fail(ctx, "'* [from v]' must precede '* [from w]'")
         ELSE [ctx EXCEPT !.dsl.deprecated_positional = version]

\* DSLParser.parse_opening_square_bracket
parse_opening_square_bracket(ctx) ==
    LET st == ctx.dsl.parameter_state
        nst == IF st \in {"START", "LEFT_SQUARE_BEFORE"} THEN "LEFT_SQUARE_BEFORE"
               ELSE "GROUP_AFTER"
    IN  IF st \notin {"START", "LEFT_SQUARE_BEFORE", "REQUIRED", "GROUP_AFTER"}
        THEN Fail(ctx, "unsupported group configuration (b)")
        ELSE [ctx EXCEPT !.dsl.parameter_state = nst,
                         !.dsl.group = @ + 1,
                         !.clinic.functions[ctx.dsl.function].docstring_only = TRUE]

\* DSLParser.parse_closing_square_bracket
parse_closing_square_bracket(ctx) ==
    LET st == ctx.dsl.parameter_state
        ps == Params(ctx)
        nst == IF st \in {"LEFT_SQUARE_BEFORE", "GROUP_BEFORE"} THEN "GROUP_BEFORE"
               ELSE "RIGHT_SQUARE_AFTER"
    IN  IF ctx.dsl.group = 0 THEN Fail(ctx, "']' without a matching '['")
        ELSE IF ~(\E i \in 1..Len(ps) : ps[i].group = ctx.dsl.group)
             THEN Fail(ctx, "empty group")
        ELSE IF st \notin {"LEFT_SQUARE_BEFORE", "GROUP_BEFORE", "GROUP_AFTER",
                           "RIGHT_SQUARE_AFTER"}
             THEN Fail(ctx, "unsupported group configuration (c)")
        ELSE [ctx EXCEPT !.dsl.group = @ - 1, !.dsl.parameter_state = nst]

\* the fixup loop of parse_slash over function.parameters
SlashFixup(ps, version) ==
    [i \in 1..Len(ps) |->
        IF ps[i].kind = "POSITIONAL_OR_KEYWORD"
        THEN IF version = NoVersion
             THEN [ps[i] EXCEPT !.kind = "POSITIONAL_ONLY"]
             ELSE IF ps[i].deprecated_keyword = NoVersion
                  THEN [ps[i] EXCEPT !.deprecated_keyword = version]
                  ELSE ps[i]
        ELSE ps[i]]

\* parse_slash with the checks against the '*' markers left out
parse_slash_order_ignoring_star(d, version) ==
    IF version = NoVersion /\ d.deprecated_keyword # NoVersion
    THEN "'/' must precede '/ [from ...]'"
    ELSE IF version = NoVersion /\ d.positional_only
    THEN "uses '/' more than once"
    ELSE IF version # NoVersion /\ d.deprecated_keyword # NoVersion
            /\ d.deprecated_keyword = version
    THEN "uses '/ [from v]' more than once"
    ELSE IF version # NoVersion /\ d.deprecated_keyword # NoVersion
            /\ VersionLess(version, d.deprecated_keyword)
    THEN "'/ [from v]' must precede '/ [from w]'"
    ELSE ""

\* the ordering checks at the head of DSLParser.parse_slash: the message of
\* the first one that fails, "" when none does
parse_slash_order(d, version) ==
    IF version = NoVersion /\ d.deprecated_keyword # NoVersion
    THEN "'/' must precede '/ [from ...]'"
    ELSE IF version = NoVersion /\ d.deprecated_positional # NoVersion
    THEN "'/' must precede '* [from ...]'"
    ELSE IF version = NoVersion /\ d.keyword_only
    THEN "'/' must precede '*'"
    ELSE IF version = NoVersion /\ d.positional_only
    THEN "uses '/' more than once"
    ELSE IF version # NoVersion /\ d.deprecated_keyword # NoVersion
            /\ d.deprecated_keyword = version
    THEN "uses '/ [from v]' more than once"
    ELSE IF version # NoVersion /\ d.deprecated_keyword # NoVersion
            /\ VersionLess(version, d.deprecated_keyword)
    THEN "'/ [from v]' must precede '/ [from w]'"
    ELSE IF version # NoVersion /\ d.deprecated_positional # NoVersion
    THEN "'/ [from ...]' must precede '* [from ...]'"
    ELSE IF version # NoVersion /\ d.keyword_only
    THEN "'/ [from ...]' must precede '*'"
    ELSE ""

\* DSLParser.parse_slash
parse_slash(ctx, version) ==
    LET d == ctx.dsl
        ps == Params(ctx)
        allowed == {"REQUIRED", "OPTIONAL", "RIGHT_SQUARE_AFTER", "GROUP_BEFORE"}
        found == ps # <<>> /\ ps[Len(ps)].kind = "POSITIONAL_OR_KEYWORD"
        order == parse_slash_order(d, version)
    IN  IF order # "" THEN Fail(ctx, order)
        ELSE IF version # NoVersion /\ ~found
        THEN Fail(ctx, "'/ [from ...]' without preceding parameters")
        ELSE IF d.parameter_state \notin allowed \/ d.group # 0
        THEN Fail(ctx, "unsupported group configuration (d)")
        ELSE SetParams([ctx EXCEPT !.dsl.positional_only = TRUE,
                                   !.dsl.deprecated_keyword = version],
                       SlashFixup(ps, version))

\* ------------------------------------------------------------------------
\* DSLParser.parse_parameter (clinic.py 2829-3104)
\* ------------------------------------------------------------------------
RECURSIVE IndexFrom(_, _, _)
IndexFrom(toks, t, i) ==
    IF i > Len(toks) THEN 0
    ELSE IF toks[i] = t THEN i ELSE IndexFrom(toks, t, i + 1)

\* str.partition: index of the first occurrence, 0 when absent
IndexOf(toks, t) == IndexFrom(toks, t, 1)

\* str.rpartition: index of the last occurrence, 0 when absent
LastIndexOf(toks, t) ==
    LET k == IndexOf(Reverse(toks), t)
    IN  IF k = 0 THEN 0 ELSE Len(toks) + 1 - k

ReservedTokens ==
    {":", "=", "as", "*", "/", "[", "]", "\\", "#", "->",
     "[from 3.14]", "[from 3.15]", "[from 3]"}

\* the converters registry (names usable as an annotation)
converters == {"int", "object", "self", "defining_class"}

\* default expressions ast.literal_eval accepts, and the bare NULL
SimpleDefaults == {"1", "None", "NULL"}

\* "handle 'as' for parameters too": name, have_as_token, trailing
AsClause(toks) ==
    IF IndexOf(toks, "as") = 2 /\ Len(toks) >= 3
    THEN [c_name |-> toks[3], toks |-> <<toks[1]>> \o SubSeq(toks, 4, Len(toks))]
    ELSE [c_name |-> "", toks |-> toks]

\* base, equals, default = line.rpartition('='), then ast.parse of
\* "def x(<base>): pass" and the checks on its arguments
DeclNamed(base) == Len(base) >= 1 /\ base[1] \notin ReservedTokens

DeclStatus(base) ==
    IF base = <<>> THEN "IndexError"
    ELSE IF Len(base) = 3 /\ DeclNamed(base) /\ base[2] = ":"
            /\ base[3] \notin ReservedTokens THEN "ok"
    ELSE IF Len(base) = 1 /\ DeclNamed(base) THEN "noannotation"
    ELSE "invalid"

DeclOf(c_name, base, default) ==
    [status |-> DeclStatus(base),
     name |-> IF ~DeclNamed(base) THEN ""
              ELSE IF base[1] = "*args" THEN "args" ELSE base[1],
     vararg |-> DeclNamed(base) /\ base[1] = "*args",
     conv |-> IF DeclStatus(base) = "ok" THEN base[3] ELSE "",
     c_name |-> c_name,
     default |-> default]

\* line.rpartition('=') on the tokens left by the 'as' clause, k the
\* place of the last '='
DeclSplit(c_name, toks, k) ==
    DeclOf(c_name,
           IF k = 0 THEN toks ELSE SubSeq(toks, 1, k - 1),
           IF k = 0 THEN <<>> ELSE SubSeq(toks, k + 1, Len(toks)))

DeclAs(a) == DeclSplit(a.c_name, a.toks, LastIndexOf(a.toks, "="))

ParseDecl(toks0) == DeclAs(AsClause(toks0))

\* the match with GROUP_BEFORE going to REQUIRED inside a group too
ParameterStateStep_eager(ctx) ==
    LET st == ctx.dsl.parameter_state IN
    IF st \in {"START", "REQUIRED", "GROUP_BEFORE"} THEN to_required(ctx)
    ELSE IF st = "LEFT_SQUARE_BEFORE"
    THEN [ctx EXCEPT !.dsl.parameter_state = "GROUP_BEFORE"]
    ELSE IF st \in {"GROUP_AFTER", "OPTIONAL"} THEN ctx
    ELSE Fail(ctx, "unsupported group configuration (a)")

\* the parameter_state match at the top of parse_parameter
ParameterStateStep(ctx) ==
    LET st == ctx.dsl.parameter_state IN
    IF st \in {"START", "REQUIRED"} THEN to_required(ctx)
    ELSE IF st = "LEFT_SQUARE_BEFORE"
    THEN [ctx EXCEPT !.dsl.parameter_state = "GROUP_BEFORE"]
    ELSE IF st = "GROUP_BEFORE"
    THEN IF ctx.dsl.group = 0 THEN to_required(ctx) ELSE ctx
    ELSE IF st \in {"GROUP_AFTER", "OPTIONAL"} THEN ctx
    ELSE Fail(ctx, "unsupported group configuration (a)")

\* a variant in which an explicit self leaves the parameters in place
AddParameter_keeps_receiver(ctx1, d) ==
    LET hasdefault == d.default # <<>>
        ctx2 == IF hasdefault /\ ~d.vararg /\ ctx1.dsl.parameter_state = "REQUIRED"
                THEN [ctx1 EXCEPT !.dsl.parameter_state = "OPTIONAL"] ELSE ctx1
        value == IF ~hasdefault THEN (IF d.vararg THEN "NULL" ELSE "unspecified")
                 ELSE d.default[1]
        kind0 == IF d.vararg THEN "VAR_POSITIONAL"
                 ELSE IF ctx2.dsl.keyword_only THEN "KEYWORD_ONLY"
                 ELSE "POSITIONAL_OR_KEYWORD"
        ps == Params(ctx2)
        isself == d.conv = "self"
        kind == IF isself THEN "POSITIONAL_ONLY" ELSE kind0
        ctx3 == IF isself
                THEN [ctx2 EXCEPT !.dsl.parameter_state = "START"]
                ELSE ctx2
        names == [i \in 1..Len(Params(ctx3)) |-> Params(ctx3)[i].name]
        key == IF d.c_name # "" THEN <<d.name, "_as_", d.c_name>> ELSE <<d.name>>
        p == [Parameter(d.name, kind, d.conv, value, ctx3.dsl.group,
                        ctx3.dsl.deprecated_positional)
                EXCEPT !.key = key, !.c_name = d.c_name]
    IN  IF d.vararg /\ \E i \in 1..Len(ps) : is_vararg(ps[i])
        THEN Fail(ctx1, "Too many var args")
        ELSE IF d.status = "noannotation"
        THEN Fail(ctx1, "Annotations must be either a name, a function call, or a string.")
        ELSE IF ~hasdefault /\ ctx1.dsl.parameter_state = "OPTIONAL"
        THEN Fail(ctx1, "Can't have a parameter without a default after one with a default")
        ELSE IF hasdefault /\ d.vararg
        THEN Fail(ctx1, "Vararg can't take a default value!")
        ELSE IF hasdefault /\ ~(Len(d.default) = 1 /\ d.default[1] \in SimpleDefaults)
        THEN Fail(ctx1, "Unsupported expression as default value")
        ELSE IF d.conv \notin converters
        THEN Fail(ctx1, "not a valid converter")
        ELSE IF isself /\ Len(ps) # 1
        THEN Fail(ctx2, "A 'self' parameter must be the very first thing")
        ELSE IF d.conv \in {"self", "defining_class"} /\ Len(ps) = 1
                /\ ctx2.dsl.parameter_state # "REQUIRED"
        THEN Fail(ctx2, "parameter cannot be marked optional")
        ELSE IF d.conv \in {"self", "defining_class"} /\ Len(ps) = 1
                /\ value # "unspecified"
        THEN Fail(ctx2, "parameter cannot have a default value")
        ELSE IF d.conv \in {"self", "defining_class"} /\ Len(ps) = 1
                /\ ctx2.dsl.group # 0
        THEN Fail(ctx2, "parameter cannot be in an optional group")
        ELSE IF d.conv = "defining_class" /\ Len(Params(ctx3)) # 1
        THEN Fail(ctx3, "A 'defining_class' parameter must be first or just after 'self'")
        ELSE IF \E i \in 2..Len(names) : names[i] = d.name
        THEN Fail(ctx3, "You can't have two parameters with one name")
        ELSE IF names # <<>> /\ names[1] = d.name /\ d.c_name = ""
        THEN Fail(ctx3, "Parameter requires a custom C name")
        ELSE SetParams(ctx3, Append(Params(ctx3), p))

\* the rest of parse_parameter, once the declaration is parsed
AddParameter(ctx1, d) ==
    LET hasdefault == d.default # <<>>
        ctx2 == IF hasdefault /\ ~d.vararg /\ ctx1.dsl.parameter_state = "REQUIRED"
                THEN [ctx1 EXCEPT !.dsl.parameter_state = "OPTIONAL"] ELSE ctx1
        value == IF ~hasdefault THEN (IF d.vararg THEN "NULL" ELSE "unspecified")
                 ELSE d.default[1]
        kind0 == IF d.vararg THEN "VAR_POSITIONAL"
                 ELSE IF ctx2.dsl.keyword_only THEN "KEYWORD_ONLY"
                 ELSE "POSITIONAL_OR_KEYWORD"
        ps == Params(ctx2)
        isself == d.conv = "self"
        kind == IF isself THEN "POSITIONAL_ONLY" ELSE kind0
        ctx3 == IF isself
                THEN SetParams([ctx2 EXCEPT !.dsl.parameter_state = "START"], <<>>)
                ELSE ctx2
        names == [i \in 1..Len(Params(ctx3)) |-> Params(ctx3)[i].name]
        key == IF d.c_name # "" THEN <<d.name, "_as_", d.c_name>> ELSE <<d.name>>
        p == [Parameter(d.name, kind, d.conv, value, ctx3.dsl.group,
                        ctx3.dsl.deprecated_positional)
                EXCEPT !.key = key, !.c_name = d.c_name]
    IN  IF d.vararg /\ \E i \in 1..Len(ps) : is_vararg(ps[i])
        THEN Fail(ctx1, "Too many var args")
        ELSE IF d.status = "noannotation"
        THEN Fail(ctx1, "Annotations must be either a name, a function call, or a string.")
        ELSE IF ~hasdefault /\ ctx1.dsl.parameter_state = "OPTIONAL"
        THEN Fail(ctx1, "Can't have a parameter without a default after one with a default")
        ELSE IF hasdefault /\ d.vararg
        THEN Fail(ctx1, "Vararg can't take a default value!")
        ELSE IF hasdefault /\ ~(Len(d.default) = 1 /\ d.default[1] \in SimpleDefaults)
        THEN Fail(ctx1, "Unsupported expression as default value")
        ELSE IF d.conv \notin converters
        THEN Fail(ctx1, "not a valid converter")
        ELSE IF isself /\ Len(ps) # 1
        THEN Fail(ctx2, "A 'self' parameter must be the very first thing")
        ELSE IF d.conv \in {"self", "defining_class"} /\ Len(ps) = 1
                /\ ctx2.dsl.parameter_state # "REQUIRED"
        THEN Fail(ctx2, "parameter cannot be marked optional")
        ELSE IF d.conv \in {"self", "defining_class"} /\ Len(ps) = 1
                /\ value # "unspecified"
        THEN Fail(ctx2, "parameter cannot have a default value")
        ELSE IF d.conv \in {"self", "defining_class"} /\ Len(ps) = 1
                /\ ctx2.dsl.group # 0
        THEN Fail(ctx2, "parameter cannot be in an optional group")
        ELSE IF d.conv = "defining_class" /\ Len(Params(ctx3)) # 1
        THEN Fail(ctx3, "A 'defining_class' parameter must be first or just after 'self'")
        ELSE IF \E i \in 2..Len(names) : names[i] = d.name
        THEN Fail(ctx3, "You can't have two parameters with one name")
        ELSE IF names # <<>> /\ names[1] = d.name /\ d.c_name = ""
        THEN Fail(ctx3, "Parameter requires a custom C name")
        ELSE SetParams(ctx3, Append(Params(ctx3), p))

\* parse_parameter after the parameter_state match, d the declaration
parse_declaration(ctx1, d) ==
    IF ctx1.err # "" THEN ctx1
    ELSE IF d.status = "invalid" THEN Fail(ctx1, "invalid parameter declaration")
    ELSE IF d.status = "IndexError" THEN Fail(ctx1, "IndexError")
    ELSE AddParameter(ctx1, d)

parse_parameter(ctx, toks) ==
    parse_declaration(ParameterStateStep(ctx), ParseDecl(toks))

\* ------------------------------------------------------------------------
\* BufferSeries, Destination (clinic.py 1584-1668)
\* Text is a sequence of pieces; the empty string is <<>>.
\* ------------------------------------------------------------------------
BufferSeries == [start |-> 0, array |-> <<>>]

\* __getitem__ that puts the new lists for a negative index after the array
BufferSeries_getitem_appends(bs, i) ==
    LET j == i - bs.start
        pre == IF j < 0
               THEN [start |-> bs.start + j,
                     array |-> bs.array \o [k \in 1..(-j) |-> <<>>]]
               ELSE bs
        jj == IF j < 0 THEN 0 ELSE j
        n == Len(pre.array)
    IN  IF jj >= n
        THEN [pre EXCEPT !.array = @ \o [k \in 1..(jj + 1 - n) |-> <<>>]]
        ELSE pre

\* BufferSeries.__getitem__: the series after making sure item i exists
BufferSeries_getitem(bs, i) ==
    LET j == i - bs.start
        pre == IF j < 0
               THEN [start |-> bs.start + j,
                     array |-> [k \in 1..(-j) |-> <<>>] \o bs.array]
               ELSE bs
        jj == IF j < 0 THEN 0 ELSE j
        n == Len(pre.array)
    IN  IF jj >= n
        THEN [pre EXCEPT !.array = @ \o [k \in 1..(jj + 1 - n) |-> <<>>]]
        ELSE pre

\* BufferSeries.clear
BufferSeries_clear(bs) == [bs EXCEPT !.array = [k \in 1..Len(@) |-> <<>>]]

\* a dump that joins the buffers of the series last to first
BufferSeries_dump_backwards(bs) == Flatten(Reverse(bs.array))

\* BufferSeries.dump: the text it returns (the series is cleared with it)
BufferSeries_dump(bs) == Flatten(bs.array)

DestinationTypes == {"buffer", "file", "suppress"}

\* Destination.__post_init__: "" or the failure
Destination_check(name, type, args) ==
    LET extra == IF type = "file" THEN 1 ELSE 0 IN
    IF type \notin DestinationTypes THEN "Invalid destination type"
    ELSE IF Len(args) < extra THEN "Not enough arguments for destination"
    ELSE IF Len(args) > extra THEN "Too many arguments for destination"
    ELSE ""

Destination(name, type, args) ==
    [name |-> name, type |-> type, buffers |-> BufferSeries,
     filename |-> IF type = "file" THEN args[1] ELSE ""]

\* ------------------------------------------------------------------------
\* Clinic: destinations and fragment routing (clinic.py 1687-1849)
\* ------------------------------------------------------------------------
\* position of a destination in clinic.destinations (a dict, in insertion
\* order); 0 when the name is not a key
DestIndex(c, name) ==
    LET hits == {i \in 1..Len(c.destinations) : c.destinations[i].name = name}
    IN  IF hits = {} THEN 0 ELSE CHOOSE i \in hits : TRUE

\* Clinic.add_destination on a clinic record (the caller checks the failure)
add_destination_fail(c, name, type, args) ==
    IF DestIndex(c, name) # 0 THEN "Destination already exists"
    ELSE Destination_check(name, type, args)

add_destination(c, name, type, args) ==
    [c EXCEPT !.destinations = Append(@, Destination(name, type, args))]

\* Clinic.get_destination_buffer: the clinic after the series grew; the
\* buffer itself is named by (destination, item)
get_destination_buffer(c, name, item) ==
    [c EXCEPT !.destinations[DestIndex(c, name)].buffers =
                  BufferSeries_getitem(@, item)]

BufferRef(name, item) == [dest |-> name, item |-> item]

\* list.append / "".join on the buffer a reference names
BufferAppend(c, ref, text) ==
    LET k == DestIndex(c, ref.dest)
        bs == c.destinations[k].buffers
    IN  [c EXCEPT !.destinations[k].buffers.array[ref.item - bs.start + 1] = @ \o text]

\* one piece of generated text: what it renders, and the line prefix and
\* suffix in force when it was rendered
Piece(frag, of, prefix, suffix) ==
    [frag |-> frag, of |-> of, prefix |-> prefix, suffix |-> suffix]

\* the keys of Clinic.destination_buffers, in insertion order
FragmentOrder ==
    <<"cpp_if", "docstring_prototype", "docstring_definition", "methoddef_define",
      "impl_prototype", "parser_prototype", "parser_definition", "cpp_endif",
      "methoddef_ifndef", "impl_definition">>

Fragments == {FragmentOrder[i] : i \in 1..Len(FragmentOrder)}

\* a routing that sends every fragment to one buffer
Everything(ref) == [f \in Fragments |-> ref]

\* dict.update
Update(fd, preset) ==
    [f \in DOMAIN fd \cup DOMAIN preset |-> IF f \in DOMAIN preset THEN preset[f] ELSE fd[f]]

\* Clinic.presets_text, parsed as Clinic.__init__ parses it
Presets ==
    LET b == BufferRef("block", 0)
        s == BufferRef("suppress", 0)
        u == BufferRef("buffer", 0)
        f == BufferRef("file", 0)
        blockp == [Everything(b) EXCEPT !["methoddef_ifndef"] = BufferRef("buffer", 1),
                      !["docstring_prototype"] = s, !["parser_prototype"] = s,
                      !["cpp_if"] = s, !["cpp_endif"] = s]
    IN  [block |-> blockp,
         original |-> blockp,
         file |-> [Everything(f) EXCEPT !["methoddef_ifndef"] = BufferRef("file", 1),
                      !["docstring_prototype"] = s, !["parser_prototype"] = s,
                      !["impl_definition"] = b],
         buffer |-> [Everything(u) EXCEPT !["methoddef_ifndef"] = BufferRef("buffer", 1),
                      !["impl_definition"] = b, !["docstring_prototype"] = s,
                      !["impl_prototype"] = s, !["parser_prototype"] = s],
         partial_buffer |-> [Everything(u) EXCEPT !["methoddef_ifndef"] = BufferRef("buffer", 1),
                      !["docstring_prototype"] = b, !["impl_prototype"] = s,
                      !["methoddef_define"] = b, !["parser_prototype"] = b,
                      !["impl_definition"] = b]]

PresetNames == {"block", "original", "file", "buffer", "partial-buffer"}

presets_get(name) ==
    IF name = "partial-buffer" THEN Presets.partial_buffer
    ELSE IF name = "block" THEN Presets.block
    ELSE IF name = "original" THEN Presets.original
    ELSE IF name = "file" THEN Presets.file
    ELSE Presets.buffer

\* Clinic.__init__ (with a filename)
Clinic(verify, limited_capi) ==
    LET d0 == <<[Destination("block", "buffer", <<>>) EXCEPT !.buffers.array = <<(<<>>)>>],
                [Destination("suppress", "suppress", <<>>) EXCEPT !.buffers.array = <<(<<>>)>>],
                [Destination("buffer", "buffer", <<>>) EXCEPT !.buffers.array = <<(<<>>), (<<>>)>>],
                [Destination("file", "file", <<"{dirname}/clinic/{basename}.h">>)
                    EXCEPT !.buffers.array = <<(<<>>), (<<>>)>>]>>
        f == BufferRef("file", 0)
        s == BufferRef("suppress", 0)
    IN  [verify |-> verify,
         limited_capi |-> limited_capi,
         modules |-> {},
         classes |-> {},
         functions |-> <<>>,
         destinations |-> d0,
         destination_buffers |->
             [Everything(f) EXCEPT !["docstring_prototype"] = s,
                                   !["parser_prototype"] = s,
                                   !["methoddef_ifndef"] = BufferRef("file", 1),
                                   !["impl_definition"] = BufferRef("block", 0)],
         destination_buffers_stack |-> <<>>,
         line_prefix |-> "",
         line_suffix |-> "",
         warnings |-> <<>>,
         includes |-> <<>>,
         ifndef_symbols |-> {},
         cpp |-> <<>>]

\* a condition of an include: <<>> is None, <<s>> the string s
NoCondition == <<>>

\* "if condition:" for an optional string
Truthy(condition) == condition # <<>> /\ condition # <<"">>

Include(filename, reason, condition) ==
    [filename |-> filename, reason |-> reason, condition |-> condition]

\* position of a key in clinic.includes (a dict, in insertion order); 0 when
\* the name is not a key
IncludeIndex(c, name) ==
    LET hits == {i \in 1..Len(c.includes) : c.includes[i].filename = name}
    IN  IF hits = {} THEN 0 ELSE CHOOSE i \in hits : TRUE

\* a variant of add_include in which the first call for a name wins
add_include_first_wins(c, name, reason, condition) ==
    IF IncludeIndex(c, name) = 0
    THEN [c EXCEPT !.includes = Append(@, Include(name, reason, condition))]
    ELSE c

\* Clinic.add_include
add_include(c, name, reason, condition) ==
    IF IncludeIndex(c, name) = 0
    THEN [c EXCEPT !.includes = Append(@, Include(name, reason, condition))]
    ELSE IF Truthy(c.includes[IncludeIndex(c, name)].condition) /\ ~Truthy(condition)
    THEN [c EXCEPT !.includes[IncludeIndex(c, name)] = Include(name, reason, condition)]
    ELSE c

\* ------------------------------------------------------------------------
\* Modules, classes and dotted names (clinic.py 1916-1941, 2285-2314)
\* An object is named by the path of dict keys that leads to it from the
\* Clinic object (the empty path).
\* ------------------------------------------------------------------------
\* str.split('.')
Fields(n) ==
    CASE n = "m.f" -> <<"m", "f">>
      [] n = "m.g" -> <<"m", "g">>
      [] n = "m.n" -> <<"m", "n">>
      [] n = "m.C" -> <<"m", "C">>
      [] n = "m.n.f" -> <<"m", "n", "f">>
      [] n = "m.n.p" -> <<"m", "n", "p">>
      [] n = "m.n.D" -> <<"m", "n", "D">>
      [] n = "m.C.f" -> <<"m", "C", "f">>
      [] n = "m.C.g" -> <<"m", "C", "g">>
      [] n = "m.C.__init__" -> <<"m", "C", "__init__">>
      [] n = "m.C.__new__" -> <<"m", "C", "__new__">>
      [] OTHER -> <<n>>

\* shlex.split of a word that was written without quotes
Words(n) ==
    CASE n = "a b" -> <<"a", "b">>
      [] OTHER -> <<n>>

ModuleKey(k) == [t |-> "module", k |-> k]
ClassKey(k) == [t |-> "class", k |-> k]
IsClass(path) == path # <<>> /\ path[Len(path)].t = "class"

\* the loop of Clinic._module_and_class: [fail, module, cls]
RECURSIVE ModuleAndClassLoop(_, _, _, _, _)
ModuleAndClassLoop(c, fields, parent, module, cls) ==
    IF fields = <<>> THEN [fail |-> "", module |-> module, cls |-> cls]
    ELSE LET asmod == Append(parent, ModuleKey(Head(fields)))
             ascls == Append(parent, ClassKey(Head(fields)))
         IN  IF ~IsClass(parent) /\ asmod \in c.modules
             THEN ModuleAndClassLoop(c, Tail(fields), asmod, asmod, cls)
             ELSE IF ascls \in c.classes
             THEN ModuleAndClassLoop(c, Tail(fields), ascls, module, ascls)
             ELSE [fail |-> "Parent class or module does not exist.",
                   module |-> module, cls |-> cls]

_module_and_class(c, fields) == ModuleAndClassLoop(c, fields, <<>>, <<>>, <<>>)

Front(s) == SubSeq(s, 1, Len(s) - 1)
Last(s) == s[Len(s)]

Sign(ctx, t, ref) ==
    [ctx EXCEPT !.block.signatures = Append(@, [t |-> t, ref |-> ref])]

\* DSLParser.directive_module
directive_module(ctx, name) ==
    LET mc == _module_and_class(ctx.clinic, Front(Fields(name)))
        m == Append(mc.module, ModuleKey(name))
    IN  IF mc.fail # "" THEN Fail(ctx, mc.fail)
        ELSE IF mc.cls # <<>> THEN Fail(ctx, "Can't nest a module inside a class!")
        ELSE IF m \in ctx.clinic.modules THEN Fail(ctx, "Already defined module")
        ELSE Sign([ctx EXCEPT !.clinic.modules = @ \cup {m}], "module", m)

\* DSLParser.directive_class
directive_class(ctx, name, typedef, type_object) ==
    LET fields == Fields(name)
        mc == _module_and_class(ctx.clinic, Front(fields))
        parent == IF mc.cls # <<>> THEN mc.cls ELSE mc.module
        k == Append(parent, ClassKey(Last(fields)))
    IN  IF mc.fail # "" THEN Fail(ctx, mc.fail)
        ELSE IF k \in ctx.clinic.classes THEN Fail(ctx, "Already defined class")
        ELSE Sign([ctx EXCEPT !.clinic.classes = @ \cup {k}], "class", k)

\* DSLParser.directive_set
directive_set(ctx, name, value) ==
    IF name = "line_prefix" THEN [ctx EXCEPT !.clinic.line_prefix = value]
    ELSE IF name = "line_suffix" THEN [ctx EXCEPT !.clinic.line_suffix = value]
    ELSE Fail(ctx, "unknown variable")

\* DSLParser.directive_destination
directive_destination(ctx, name, command, args) ==
    LET k == DestIndex(ctx.clinic, name) IN
    IF command = "new"
    THEN IF args = <<>> THEN Fail(ctx, "TypeError: add_destination() missing 'type'")
         ELSE LET f == add_destination_fail(ctx.clinic, name, Head(args), Tail(args))
              IN  IF f # "" THEN Fail(ctx, f)
                  ELSE [ctx EXCEPT !.clinic = add_destination(@, name, Head(args), Tail(args))]
    ELSE IF command = "clear"
    THEN IF k = 0 THEN Fail(ctx, "Destination does not exist")
         ELSE IF ctx.clinic.destinations[k].type # "buffer"
         THEN Fail(ctx, "Can't clear destination: it's not of type 'buffer'")
         ELSE [ctx EXCEPT !.clinic.destinations[k].buffers = BufferSeries_clear(@)]
    ELSE Fail(ctx, "unknown destination command")

\* directive_output with a pop that drops the saved routing
directive_output_pop_drops(ctx, command_or_name, destination) ==
    LET c == ctx.clinic
        fd == c.destination_buffers
        stack == c.destination_buffers_stack
    IN  IF command_or_name = "preset"
        THEN IF destination \notin PresetNames THEN Fail(ctx, "Unknown preset")
             ELSE [ctx EXCEPT !.clinic.destination_buffers = Update(fd, presets_get(destination))]
        ELSE IF command_or_name = "push"
        THEN [ctx EXCEPT !.clinic.destination_buffers_stack = Append(stack, fd)]
        ELSE IF command_or_name = "pop"
        THEN IF stack = <<>> THEN Fail(ctx, "Can't 'output pop', stack is empty!")
             ELSE [ctx EXCEPT !.clinic.destination_buffers_stack = Front(stack)]
        ELSE IF command_or_name = "print"
        THEN [ctx EXCEPT !.block.output = @ \o <<Piece("print", [fd |-> fd], "", "")>>,
                         !.block.appended = TRUE]
        ELSE IF DestIndex(c, destination) = 0 THEN Fail(ctx, "Destination does not exist")
        ELSE IF command_or_name = "everything"
        THEN [ctx EXCEPT !.clinic = [get_destination_buffer(c, destination, 0)
                                        EXCEPT !.destination_buffers =
                                                   Everything(BufferRef(destination, 0))]]
        ELSE IF command_or_name \notin DOMAIN fd
        THEN Fail([ctx EXCEPT !.clinic = get_destination_buffer(c, destination, 0)],
                  "Invalid command or destination name")
        ELSE [ctx EXCEPT !.clinic = [get_destination_buffer(c, destination, 0)
                                        EXCEPT !.destination_buffers[command_or_name] =
                                                   BufferRef(destination, 0)]]

\* DSLParser.directive_output
directive_output(ctx, command_or_name, destination) ==
    LET c == ctx.clinic
        fd == c.destination_buffers
        stack == c.destination_buffers_stack
    IN  IF command_or_name = "preset"
        THEN IF destination \notin PresetNames THEN Fail(ctx, "Unknown preset")
             ELSE [ctx EXCEPT !.clinic.destination_buffers = Update(fd, presets_get(destination))]
        ELSE IF command_or_name = "push"
        THEN [ctx EXCEPT !.clinic.destination_buffers_stack = Append(stack, fd)]
        ELSE IF command_or_name = "pop"
        THEN IF stack = <<>> THEN Fail(ctx, "Can't 'output pop', stack is empty!")
             ELSE [ctx EXCEPT !.clinic.destination_buffers_stack = Front(stack),
                              !.clinic.destination_buffers = Update(fd, Last(stack))]
        ELSE IF command_or_name = "print"
        THEN [ctx EXCEPT !.block.output = @ \o <<Piece("print", [fd |-> fd], "", "")>>,
                         !.block.appended = TRUE]
        ELSE IF DestIndex(c, destination) = 0 THEN Fail(ctx, "Destination does not exist")
        ELSE IF command_or_name = "everything"
        THEN [ctx EXCEPT !.clinic = [get_destination_buffer(c, destination, 0)
                                        EXCEPT !.destination_buffers =
                                                   Everything(BufferRef(destination, 0))]]
        ELSE IF command_or_name \notin DOMAIN fd
        THEN Fail([ctx EXCEPT !.clinic = get_destination_buffer(c, destination, 0)],
                  "Invalid command or destination name")
        ELSE [ctx EXCEPT !.clinic = [get_destination_buffer(c, destination, 0)
                                        EXCEPT !.destination_buffers[command_or_name] =
                                                   BufferRef(destination, 0)]]

\* DSLParser.directive_dump
directive_dump(ctx, name) ==
    LET k == DestIndex(ctx.clinic, name) IN
    IF k = 0 THEN Fail(ctx, "Destination does not exist")
    ELSE [ctx EXCEPT !.block.output = @ \o BufferSeries_dump(ctx.clinic.destinations[k].buffers),
                     !.block.appended = TRUE,
                     !.clinic.destinations[k].buffers = BufferSeries_clear(@)]

\* DSLParser.directive_printout
directive_printout(ctx, args) ==
    [ctx EXCEPT !.block.output = @ \o <<Piece("printout", [args |-> args], "", "")>>,
                !.block.appended = TRUE]

\* DSLParser.directive_preserve
directive_preserve(ctx) ==
    IF ctx.dsl.preserve_output THEN Fail(ctx, "Can't have 'preserve' twice in one block!")
    ELSE [ctx EXCEPT !.dsl.preserve_output = TRUE]

\* DSLParser.at_classmethod
at_classmethod(ctx) ==
    IF ctx.dsl.kind # "CALLABLE"
    THEN Fail(ctx, "Can't set @classmethod, function is not a normal callable")
    ELSE [ctx EXCEPT !.dsl.kind = "CLASS_METHOD"]

\* DSLParser.at_critical_section
at_critical_section(ctx, args) ==
    IF Len(args) > 2 THEN Fail(ctx, "Up to 2 critical section variables are supported")
    ELSE [ctx EXCEPT !.dsl.target_critical_section = @ \o args,
                     !.dsl.critical_section = TRUE]

\* DSLParser.at_getter
at_getter(ctx) ==
    IF ctx.dsl.kind = "GETTER" THEN Fail(ctx, "Cannot apply @getter twice to the same function!")
    ELSE IF ctx.dsl.kind = "SETTER"
    THEN Fail(ctx, "Cannot apply both @getter and @setter to the same function!")
    ELSE [ctx EXCEPT !.dsl.kind = "GETTER"]

\* DSLParser.at_setter
at_setter(ctx) ==
    IF ctx.dsl.kind = "SETTER" THEN Fail(ctx, "Cannot apply @setter twice to the same function!")
    ELSE IF ctx.dsl.kind = "GETTER"
    THEN Fail(ctx, "Cannot apply both @getter and @setter to the same function!")
    ELSE [ctx EXCEPT !.dsl.kind = "SETTER"]

\* DSLParser.at_staticmethod
at_staticmethod(ctx) ==
    IF ctx.dsl.kind # "CALLABLE"
    THEN Fail(ctx, "Can't set @staticmethod, function is not a normal callable")
    ELSE [ctx EXCEPT !.dsl.kind = "STATIC_METHOD"]

\* DSLParser.at_coexist
at_coexist(ctx) ==
    IF ctx.dsl.coexist THEN Fail(ctx, "Called @coexist twice!")
    ELSE [ctx EXCEPT !.dsl.coexist = TRUE]

\* DSLParser.at_text_signature
at_text_signature(ctx, text_signature) ==
    IF ctx.dsl.forced_text_signature # "" THEN Fail(ctx, "Called @text_signature twice!")
    ELSE [ctx EXCEPT !.dsl.forced_text_signature = text_signature]

\* the names DSLParser.__init__ registers as directives
directives ==
    {"module", "class", "set", "destination", "output", "dump", "printout",
     "preserve", "@classmethod", "@critical_section", "@getter", "@setter",
     "@staticmethod", "@coexist", "@text_signature"}

\* directive(*fields[1:]); a TypeError from the call becomes fail()
CallDirective(ctx, name, a) ==
    LET n == Len(a)
        TypeError == Fail(ctx, "TypeError: wrong number of arguments")
    IN  CASE name = "module" -> IF n = 1 THEN directive_module(ctx, a[1]) ELSE TypeError
          [] name = "class" ->
                IF n = 3 THEN directive_class(ctx, a[1], a[2], a[3]) ELSE TypeError
          [] name = "set" ->
                IF n # 2 THEN TypeError
                ELSE directive_set(ctx, a[1], a[2])
          [] name = "destination" ->
                IF n >= 2 THEN directive_destination(ctx, a[1], a[2], SubSeq(a, 3, n))
                ELSE TypeError
          [] name = "output" ->
                IF n = 1 THEN directive_output(ctx, a[1], "")
                ELSE IF n = 2 THEN directive_output(ctx, a[1], a[2]) ELSE TypeError
          [] name = "dump" -> IF n = 1 THEN directive_dump(ctx, a[1]) ELSE TypeError
          [] name = "printout" -> directive_printout(ctx, a)
          [] name = "preserve" -> IF n = 0 THEN directive_preserve(ctx) ELSE TypeError
          [] name = "@classmethod" -> IF n = 0 THEN at_classmethod(ctx) ELSE TypeError
          [] name = "@critical_section" -> at_critical_section(ctx, a)
          [] name = "@getter" -> IF n = 0 THEN at_getter(ctx) ELSE TypeError
          [] name = "@setter" -> IF n = 0 THEN at_setter(ctx) ELSE TypeError
          [] name = "@staticmethod" -> IF n = 0 THEN at_staticmethod(ctx) ELSE TypeError
          [] name = "@coexist" -> IF n = 0 THEN at_coexist(ctx) ELSE TypeError
          [] name = "@text_signature" ->
                IF n = 1 THEN at_text_signature(ctx, a[1]) ELSE TypeError

\* ------------------------------------------------------------------------
\* The function header (clinic.py 2516-2700)
\* ------------------------------------------------------------------------
\* a sample of unsupported_special_methods
unsupported_special_methods == {"__abs__", "__len__", "__repr__"}

\* libclinic.is_legal_py_identifier / is_legal_c_identifier on one word
IsLegalName(toks) ==
    Len(toks) = 1 /\ toks[1] \notin ReservedTokens /\ toks[1] # "*args"

\* DSLParser.normalize_function_kind: [fail, kind]
normalize_function_kind(ctx, fullname) ==
    LET fields == Fields(fullname)
        name == Last(fields)
        mc == _module_and_class(ctx.clinic, Front(fields))
        kind == ctx.dsl.kind
        hascls == mc.cls # <<>>
    IN  IF mc.fail # "" THEN Fail(ctx, mc.fail)
        ELSE IF name \in unsupported_special_methods
        THEN Fail(ctx, "is a special method and cannot be converted to Argument Clinic!")
        ELSE IF name = "__init__" /\ (kind # "CALLABLE" \/ ~hascls)
        THEN Fail(ctx, "'__init__' must be a normal method")
        ELSE IF name = "__new__" /\ (kind # "CLASS_METHOD" \/ ~hascls)
        THEN Fail(ctx, "'__new__' must be a class method!")
        ELSE IF kind \in {"GETTER", "SETTER"} /\ ~hascls
        THEN Fail(ctx, "@getter and @setter must be methods")
        ELSE IF name = "__new__" THEN [ctx EXCEPT !.dsl.kind = "METHOD_NEW"]
        ELSE IF name = "__init__" THEN [ctx EXCEPT !.dsl.kind = "METHOD_INIT"]
        ELSE ctx

\* DSLParser.parse_function_names: [ctx, full_name, c_basename]
parse_function_names(ctx, toks) ==
    LET k == IndexOf(toks, "as")
        as_ == k > 1 /\ k < Len(toks)
        left == IF as_ THEN SubSeq(toks, 1, k - 1) ELSE toks
        right == IF as_ THEN SubSeq(toks, k + 1, Len(toks)) ELSE <<>>
        full_name == IF left = <<>> THEN "" ELSE left[1]
        fields == Fields(full_name)
        c_basename == IF right # <<>> THEN right
                      ELSE IF Last(fields) = "__new__" THEN Front(fields) ELSE fields
        ctx1 == IF ~IsLegalName(left) THEN Fail(ctx, "Illegal function name")
                ELSE IF right # <<>> /\ ~IsLegalName(right) THEN Fail(ctx, "Illegal C basename")
                ELSE normalize_function_kind(ctx, full_name)
    IN  [ctx |-> ctx1, full_name |-> full_name, c_basename |-> c_basename]

return_converters == {"int", "object"}

\* DSLParser.resolve_return_converter: [fail, rc]
resolve_return_converter(ctx, returns) ==
    IF returns # <<>>
    THEN IF ctx.dsl.kind \in {"GETTER", "SETTER"}
         THEN [fail |-> "method cannot define a return type", rc |-> ""]
         ELSE IF ctx.dsl.kind = "METHOD_INIT"
         THEN [fail |-> "__init__ methods cannot define a return type", rc |-> ""]
         ELSE IF ~IsLegalName(returns)
         THEN [fail |-> "Badly formed annotation", rc |-> ""]
         ELSE IF returns[1] \notin return_converters
         THEN [fail |-> "No available return converter", rc |-> ""]
         ELSE [fail |-> "", rc |-> returns[1]]
    ELSE IF ctx.dsl.kind \in {"METHOD_INIT", "SETTER"} THEN [fail |-> "", rc |-> "int"]
    ELSE [fail |-> "", rc |-> "CReturnConverter"]

\* libclinic.converters.correct_name_for_self: the receiver's name
correct_name_for_self(f) ==
    IF f.kind \in {"CALLABLE", "METHOD_INIT", "GETTER", "SETTER"}
    THEN IF f.cls # <<>> THEN "self" ELSE "module"
    ELSE IF f.kind = "STATIC_METHOD" THEN "null"
    ELSE "type"

Function(name, full_name, module, cls, c_basename, rc, d) ==
    [name |-> name, full_name |-> full_name, module |-> module, cls |-> cls,
     c_basename |-> c_basename, return_converter |-> rc, kind |-> d.kind,
     coexist |-> d.coexist, critical_section |-> d.critical_section,
     target_critical_section |-> d.target_critical_section,
     parameters |-> <<>>, docstring |-> <<>>, docstring_only |-> FALSE]

FunctionParent(f) == IF f.cls # <<>> THEN f.cls ELSE f.module

\* self.function = func; block.signatures.append; parent.functions.append
Register(ctx, func) ==
    LET n == Len(ctx.clinic.functions) + 1
    IN  Sign([ctx EXCEPT !.clinic.functions = Append(@, func), !.dsl.function = n],
             "function", n)

\* DSLParser.add_function
add_function(ctx, func) ==
    LET name == correct_name_for_self(func)
        self == Parameter(name, "POSITIONAL_ONLY", "self", "unspecified", 0, NoVersion)
    IN  Register(ctx, [func EXCEPT !.parameters = <<self>>])

\* DSLParser.parse_cloned_function
parse_cloned_function(ctx, names, existing) ==
    LET c == ctx.clinic
        efields == Fields(existing)
        emc == _module_and_class(c, Front(efields))
        eparent == IF emc.cls # <<>> THEN emc.cls ELSE emc.module
        hits == {i \in 1..Len(c.functions) :
                    /\ FunctionParent(c.functions[i]) = eparent
                    /\ c.functions[i].name = Last(efields)}
        first == CHOOSE i \in hits : \A j \in hits : i <= j
        ef == c.functions[first]
        fields == Fields(names.full_name)
        mc == _module_and_class(c, Front(fields))
        same == ef.kind = ctx.dsl.kind /\ ef.coexist = ctx.dsl.coexist
        new_or_init == ef.kind \in {"METHOD_INIT", "METHOD_NEW"}
        copy == [ef EXCEPT !.name = Last(fields), !.full_name = names.full_name,
                           !.module = mc.module, !.cls = mc.cls,
                           !.c_basename = names.c_basename, !.docstring = <<>>,
                           !.kind = IF same THEN @ ELSE ctx.dsl.kind,
                           !.return_converter = IF same THEN @ ELSE "CReturnConverter"]
    IN  IF emc.fail # "" THEN Fail(ctx, emc.fail)
        ELSE IF hits = {} THEN Fail(ctx, "Couldn't find existing function")
        ELSE IF mc.fail # "" THEN Fail(ctx, mc.fail)
        ELSE IF ~same /\ ~new_or_init
        THEN Fail(ctx, "'kind' of function and cloned function don't match!")
        ELSE [Register(ctx, copy) EXCEPT !.dsl.state = "function_docstring"]

\* a variant that declares a function of that name and copies nothing
clone_named_fresh(cnames, existing) ==
    IF cnames.ctx.err # "" THEN cnames.ctx
    ELSE [add_function(cnames.ctx,
                       Function(Last(Fields(cnames.full_name)), cnames.full_name, <<>>, <<>>,
                                cnames.c_basename, "CReturnConverter", cnames.ctx.dsl))
            EXCEPT !.dsl.state = "function_docstring"]

\* the cloning branch of state_modulename_name, the names parsed
clone_named(cnames, existing) ==
    IF cnames.ctx.err # "" THEN cnames.ctx
    ELSE parse_cloned_function(cnames.ctx, cnames, existing)

\* the end of state_modulename_name: Function(...) and add_function
declare_function(names, rc, mc) ==
    IF names.ctx.err # "" THEN names.ctx
    ELSE IF rc.fail # "" THEN Fail(names.ctx, rc.fail)
    ELSE [add_function(names.ctx,
                       Function(Last(Fields(names.full_name)), names.full_name,
                                mc.module, mc.cls, names.c_basename, rc.rc,
                                names.ctx.dsl))
            EXCEPT !.dsl.state = "parameters_start"]

\* the declaring branch of state_modulename_name, the names parsed
declare_named(names, returns) ==
    declare_function(names,
                     resolve_return_converter(names.ctx, returns),
                     _module_and_class(names.ctx.clinic, Front(Fields(names.full_name))))

\* state_modulename_name once the indent is taken, e the place of the
\* last '=' and a the place of '->'
modulename_name(ctx, toks, e, a) ==
    IF e > 0 /\ IsLegalName(SubSeq(toks, e + 1, Len(toks)))
    THEN clone_named(parse_function_names(ctx, SubSeq(toks, 1, e - 1)), toks[e + 1])
    ELSE declare_named(parse_function_names(ctx, IF a = 0 THEN toks
                                                 ELSE SubSeq(toks, 1, a - 1)),
                       IF a = 0 THEN <<>> ELSE SubSeq(toks, a + 1, Len(toks)))

\* DSLParser.state_modulename_name
state_modulename_name(ctx0, ln) ==
    LET i == infer(ctx0.dsl.indent, ln) IN
    IF i.fail # "" THEN Fail(ctx0, i.fail)
    ELSE modulename_name([ctx0 EXCEPT !.dsl.indent = i.ind,
                                      !.dsl.state = "modulename_name"],
                         ln.toks, LastIndexOf(ln.toks, "="), IndexOf(ln.toks, "->"))

\* ------------------------------------------------------------------------
\* The parser's states (clinic.py 2444-2514, 2757-2827, 3254-3310)
\* ------------------------------------------------------------------------
IsComment(ln) == ln.toks # <<>> /\ ln.toks[1] = "#"
IsBlank(ln) == ln.toks = <<>>

\* DSLParser.in_docstring
in_docstring(d) == d.state \in {"parameter_docstring", "function_docstring"}

\* valid_line skipping blank lines alone
valid_line_keeps_comments(d, ln) == ~(~in_docstring(d) /\ IsBlank(ln))

\* DSLParser.valid_line
valid_line(d, ln) ==
    IF IsComment(ln) THEN FALSE
    ELSE IF ~in_docstring(d) /\ IsBlank(ln) THEN FALSE
    ELSE TRUE

DocLine(i, t) == [indent |-> i, toks |-> t]

\* IndentStack.dedent of the rstripped line: [fail, ln]
dedent(ind, ln) ==
    IF ln.indent < ind.margin
    THEN [fail |-> "Cannot dedent; line does not start with the previous margin.", ln |-> ln]
    ELSE [fail |-> "", ln |-> DocLine(ln.indent - Top(ind), ln.toks)]

BlankLine == DocLine(0, <<>>)

\* DSLParser.docstring_append on a docstring value: [fail, doc]
docstring_append(ind, docstring, ln) ==
    LET d == dedent(ind, ln) IN
    IF IsBlank(ln)
    THEN [fail |-> "", doc |-> IF docstring = <<>> THEN <<>> ELSE Append(docstring, BlankLine)]
    ELSE IF d.fail # "" THEN [fail |-> d.fail, doc |-> docstring]
    ELSE [fail |-> "", doc |-> Append(docstring, d.ln)]

\* DSLParser.state_function_docstring
state_function_docstring(ctx0, ln) ==
    LET ctx == [ctx0 EXCEPT !.dsl.state = "function_docstring"]
        a == docstring_append(ctx.dsl.indent, CurFunction(ctx).docstring, ln)
    IN  IF ctx.dsl.group # 0 THEN Fail(ctx, "']' without a matching '['")
        ELSE IF ~valid_line(ctx.dsl, ln) THEN ctx
        ELSE IF a.fail # "" THEN Fail(ctx, a.fail)
        ELSE [ctx EXCEPT !.clinic.functions[ctx.dsl.function].docstring = a.doc]

\* the match statement of state_parameter on the stripped line; a line
\* that raised nothing is recorded in hist
NoteParameterLine(r, sym, version, name) ==
    IF r.err # "" THEN r
    ELSE Note(r, IF sym \in {<<"*">>, <<"[">>, <<"]">>, <<"/">>} THEN sym[1] ELSE "param",
              version, name)

DispatchParameterLine(ctx, toks) ==
    LET versioned == Len(toks) = 2 /\ toks[1] \in {"*", "/"} /\ IsFromToken(toks[2])
        sym == IF versioned THEN <<toks[1]>> ELSE toks
        version == IF versioned THEN parse_version(toks[2]) ELSE NoVersion
    IN  IF versioned /\ version = NoVersion
        THEN Fail(ctx, "expected format '[from major.minor]'")
        ELSE NoteParameterLine(
                 IF sym = <<"*">> THEN parse_star(ctx, version)
                 ELSE IF sym = <<"[">> THEN parse_opening_square_bracket(ctx)
                 ELSE IF sym = <<"]">> THEN parse_closing_square_bracket(ctx)
                 ELSE IF sym = <<"/">> THEN parse_slash(ctx, version)
                 ELSE parse_parameter(ctx, toks),
                 sym, version, ParseDecl(toks).name)

NoContinuation == [indent |-> 0, toks |-> <<>>]

RECURSIVE state_parameter(_, _)

\* DSLParser.state_parameter_docstring
state_parameter_docstring(ctx0, ln) ==
    LET ctx == [ctx0 EXCEPT !.dsl.state = "parameter_docstring"]
        m == measure(ctx.dsl.indent, ln)
        i == infer(ctx.dsl.indent, ln)
        out == [ctx EXCEPT !.dsl.indent = i.ind]
        ps == Params(ctx)
        a == docstring_append(ctx.dsl.indent, ps[Len(ps)].docstring, ln)
    IN  IF ~valid_line(ctx.dsl, ln) THEN ctx
        ELSE IF m.fail # "" THEN Fail(ctx, m.fail)
        ELSE IF m.v < ctx.dsl.parameter_docstring_indent
        THEN IF i.fail # "" THEN Fail(ctx, i.fail)
             ELSE IF depth(i.ind) >= 3 THEN Fail(out, "AssertionError")
             ELSE IF depth(i.ind) = 2 THEN state_parameter(out, ln)
             ELSE IF depth(i.ind) # 1 THEN Fail(out, "AssertionError")
             ELSE state_function_docstring(out, ln)
        ELSE IF a.fail # "" THEN Fail(ctx, a.fail)
        ELSE SetParams(ctx, [ps EXCEPT ![Len(ps)].docstring = a.doc])

\* DSLParser.state_parameter_docstring_start
state_parameter_docstring_start(ctx0, ln) ==
    LET ctx == [ctx0 EXCEPT !.dsl.state = "parameter_docstring_start",
                            !.dsl.parameter_docstring_indent = ctx0.dsl.indent.margin]
    IN  IF depth(ctx.dsl.indent) # 3 THEN Fail(ctx, "AssertionError")
        ELSE state_parameter_docstring(ctx, ln)

\* DSLParser.state_parameter
state_parameter(ctx0, raw) ==
    LET ctx1 == [ctx0 EXCEPT !.dsl.state = "parameter"]
        cont == ctx1.dsl.parameter_continuation
        ln == IF cont = NoContinuation THEN raw
              ELSE IF cont.toks = <<>>
              THEN [raw EXCEPT !.indent = cont.indent + 1]
              ELSE [raw EXCEPT !.indent = cont.indent, !.toks = cont.toks \o raw.toks]
        ctx == [ctx1 EXCEPT !.dsl.parameter_continuation = NoContinuation]
        i == infer(ctx.dsl.indent, ln)
        in == [ctx EXCEPT !.dsl.indent = i.ind]
    IN  IF ~valid_line(ctx1.dsl, raw) THEN ctx1
        ELSE IF depth(ctx.dsl.indent) # 2 THEN Fail(ctx, "AssertionError")
        ELSE IF i.fail # "" THEN Fail(ctx, i.fail)
        ELSE IF i.r = -1 THEN state_function_docstring(in, ln)
        ELSE IF i.r = 1 THEN state_parameter_docstring_start(in, ln)
        ELSE IF Last(ln.toks) = "\\"
        THEN [in EXCEPT !.dsl.parameter_continuation =
                            [indent |-> ln.indent, toks |-> Front(ln.toks)]]
        ELSE DispatchParameterLine(in, ln.toks)

\* DSLParser.state_parameters_start
state_parameters_start(ctx, ln) ==
    LET i == infer(ctx.dsl.indent, ln)
        in == [ctx EXCEPT !.dsl.indent = i.ind]
    IN  IF ~valid_line(ctx.dsl, ln) THEN ctx
        ELSE IF i.fail # "" THEN Fail(ctx, i.fail)
        ELSE IF i.r = 0 THEN state_function_docstring(in, ln)
        ELSE IF CurFunction(ctx).kind \in {"GETTER", "SETTER"}
        THEN Fail(in, "@getter/@setter methods cannot define parameters")
        ELSE state_parameter([in EXCEPT !.dsl.parameter_continuation = NoContinuation], ln)

\* DSLParser.state_dsl_start
state_dsl_start(ctx, ln) ==
    IF ~valid_line(ctx.dsl, ln) THEN ctx
    ELSE IF ln.toks[1] \in directives
    THEN CallDirective(ctx, ln.toks[1], Tail(ln.toks))
    ELSE state_modulename_name(ctx, ln)

\* ParseLine with the function docstring handing its lines to state_dsl_start
ParseLine_reopens(ctx, ln) ==
    LET st == ctx.dsl.state IN
    IF ln.tab THEN Fail(ctx, "Tab characters are illegal in the Clinic DSL")
    ELSE IF st = "parameters_start" THEN state_parameters_start(ctx, ln)
    ELSE IF st = "parameter" THEN state_parameter(ctx, ln)
    ELSE IF st = "parameter_docstring" THEN state_parameter_docstring(ctx, ln)
    ELSE state_dsl_start([ctx EXCEPT !.dsl.state = "dsl_start"], ln)

\* one turn of the loop of DSLParser.parse: the tab check, then self.state(line)
ParseLine(ctx, ln) ==
    LET st == ctx.dsl.state IN
    IF ln.tab THEN Fail(ctx, "Tab characters are illegal in the Clinic DSL")
    ELSE IF st = "dsl_start" THEN state_dsl_start(ctx, ln)
    ELSE IF st = "parameters_start" THEN state_parameters_start(ctx, ln)
    ELSE IF st = "parameter" THEN state_parameter(ctx, ln)
    ELSE IF st = "parameter_docstring" THEN state_parameter_docstring(ctx, ln)
    ELSE state_function_docstring(ctx, ln)

\* ------------------------------------------------------------------------
\* End of block: docstring formatting (clinic.py 3312-3577)
\* ------------------------------------------------------------------------
Abs(n) == IF n < 0 THEN -n ELSE n

new_or_init(kind) == kind \in {"METHOD_INIT", "METHOD_NEW"}

\* Function.displayname
displayname(f) == IF new_or_init(f.kind) THEN Last(f.cls).k ELSE f.name

\* converter.show_in_signature after pre_render
show_in_signature(f, p) ==
    IF p.conv = "defining_class" THEN FALSE
    ELSE IF p.conv = "self" THEN ~(f.kind = "STATIC_METHOD" \/ new_or_init(f.kind))
    ELSE TRUE

\* "positional_only" of the right_bracket_count loop, after parameter i
PositionalOnlyPrefix(ps, i) == \A j \in 2..i : is_positional_only(ps[j])

\* "assert positional_only" fails for some parameter
PositionalOnlyAssertFails(ps) ==
    \E i \in 2..Len(ps) : is_positional_only(ps[i]) /\ ~PositionalOnlyPrefix(ps, i - 1)

right_bracket_count(ps, i) ==
    IF i > 1 /\ PositionalOnlyPrefix(ps, i) THEN Abs(ps[i].group) ELSE 0

\* fix_right_bracket_count: the brackets that move the count to desired
fix_right_bracket_count(count, desired) ==
    IF count < desired THEN [k \in 1..(desired - count) |-> "["]
    ELSE [k \in 1..(count - desired) |-> "]"]

\* the loop "for p in parameters" of format_docstring_signature
RECURSIVE SignatureLoop(_, _, _, _)
SignatureLoop(f, ps, i, st) ==
    IF i > Len(ps) THEN st
    ELSE LET p == ps[i]
             is_self == p.conv = "self"
             skip == ~show_in_signature(f, p) \/ (is_self /\ f.docstring_only)
             need_slash == IF is_positional_only(p) THEN ~f.docstring_only ELSE st.need_slash
             slash == ~is_positional_only(p) /\ need_slash /\ ~st.added_slash
             star == is_keyword_only(p) /\ ~st.added_star
             rbc == right_bracket_count(ps, i)
             text == (IF slash THEN <<"/,">> ELSE <<>>)
                     \o (IF star THEN <<"*,">> ELSE <<>>)
                     \o fix_right_bracket_count(st.count, rbc)
                     \o (IF is_self THEN <<"$">> ELSE <<>>)
                     \o (IF is_vararg(p) THEN <<"*">> ELSE <<>>)
                     \o <<p.name>>
                     \o (IF ~is_vararg(p) /\ p.default # "unspecified"
                         THEN <<"=", p.default>> ELSE <<>>)
                     \o (IF i # Len(ps) \/ st.trailing THEN <<",">> ELSE <<>>)
         IN  IF skip THEN SignatureLoop(f, ps, i + 1, st)
             ELSE SignatureLoop(f, ps, i + 1,
                      [st EXCEPT !.need_slash = need_slash,
                                 !.added_slash = @ \/ slash,
                                 !.added_star = @ \/ star,
                                 !.count = rbc,
                                 !.out = @ \o text])

\* need_a_trailing_slash: the last shown parameter is positional-only
NeedTrailingSlash(f, ps) ==
    LET shown == {i \in 1..Len(ps) : show_in_signature(f, ps[i])}
    IN  /\ ~f.docstring_only
        /\ shown # {}
        /\ is_positional_only(ps[CHOOSE i \in shown : \A j \in shown : j <= i])

\* DSLParser.format_docstring_signature: [fail, lines]
format_docstring_signature(d, f) ==
    LET ps == f.parameters
        st == SignatureLoop(f, ps, 1,
                  [need_slash |-> FALSE, added_slash |-> FALSE, added_star |-> FALSE,
                   count |-> 0, trailing |-> NeedTrailingSlash(f, ps), out |-> <<>>])
        sig == <<displayname(f), "(">> \o st.out \o fix_right_bracket_count(st.count, 0)
               \o (IF st.trailing THEN <<"/">> ELSE <<>>) \o <<")">>
        end == IF f.docstring_only THEN <<>> ELSE <<DocLine(0, <<"--">>), DocLine(0, <<>>)>>
    IN  IF d.forced_text_signature # ""
        THEN [fail |-> "", lines |-> <<DocLine(0, <<displayname(f), d.forced_text_signature>>)>> \o end]
        ELSE IF f.kind \in {"GETTER", "SETTER"} THEN [fail |-> "", lines |-> <<>>]
        ELSE IF PositionalOnlyAssertFails(ps) THEN [fail |-> "AssertionError", lines |-> <<>>]
        ELSE [fail |-> "", lines |-> <<DocLine(0, sig)>> \o end]

\* DSLParser.format_docstring_parameters
RECURSIVE format_docstring_parameters(_)
format_docstring_parameters(ps) ==
    IF ps = <<>> THEN <<>>
    ELSE (IF Head(ps).docstring # <<>>
          THEN <<DocLine(2, <<Head(ps).name>>)>> \o Head(ps).docstring
          ELSE <<>>) \o format_docstring_parameters(Tail(ps))

\* str.rstrip on a text of lines
RECURSIVE RStripLines(_)
RStripLines(lines) ==
    IF lines # <<>> /\ Last(lines).toks = <<>> THEN RStripLines(Front(lines)) ELSE lines

IsParametersMarker(ln) == ln.toks = <<"{parameters}">>

\* libclinic.linear_format of the one {parameters} line
RECURSIVE SubstituteParameters(_, _)
SubstituteParameters(lines, text) ==
    IF lines = <<>> THEN <<>>
    ELSE (IF IsParametersMarker(Head(lines)) THEN text ELSE <<Head(lines)>>)
         \o SubstituteParameters(Tail(lines), text)

\* the end of format_docstring: the signature, then the lines with
\* {parameters} filled in
docstring_with_signature(f, sig, lines) ==
    IF sig.fail # "" THEN [fail |-> sig.fail, doc |-> f.docstring]
    ELSE [fail |-> "",
          doc |-> RStripLines(sig.lines
                      \o SubstituteParameters(lines,
                             format_docstring_parameters(f.parameters)))]

\* DSLParser.format_docstring: [fail, doc]
format_docstring(d, f) ==
    LET doc == f.docstring
        lines0 == IF doc = <<>> THEN <<BlankLine>> ELSE doc
        lines1 == IF Len(lines0) = 1 THEN Append(lines0, BlankLine) ELSE lines0
        markers == Cardinality({i \in 1..Len(doc) : IsParametersMarker(doc[i])})
        lines2 == IF markers = 0
                  THEN SubSeq(lines1, 1, 2) \o <<DocLine(0, <<"{parameters}">>)>>
                       \o SubSeq(lines1, 3, Len(lines1))
                  ELSE lines1
    IN  IF f.kind \in {"METHOD_INIT", "METHOD_NEW", "GETTER", "SETTER"} /\ doc = <<>>
        THEN [fail |-> "", doc |-> doc]
        ELSE IF Len(lines0) >= 2 /\ lines0[2].toks # <<>>
        THEN [fail |-> "Docstring does not have a summary line!", doc |-> doc]
        ELSE IF markers > 1
        THEN [fail |-> "You may not specify {parameters} more than once in a docstring!",
              doc |-> doc]
        ELSE docstring_with_signature(f, format_docstring_signature(d, f), lines2)

\* DSLParser.do_post_block_processing_cleanup
set_docstring(ctx, fd) ==
    IF fd.fail # "" THEN Fail(ctx, fd.fail)
    ELSE [ctx EXCEPT !.clinic.functions[ctx.dsl.function].docstring = fd.doc]

do_post_block_processing_cleanup(ctx) ==
    IF ctx.dsl.function = 0 THEN ctx
    ELSE IF check_remaining_star(ctx)
    THEN Fail(ctx, "specifies marker without following parameters")
    ELSE set_docstring(ctx, format_docstring(ctx.dsl, CurFunction(ctx)))

\* ------------------------------------------------------------------------
\* Rendering (clinic.py 359-370, 529-1206, 1318-1494)
\* ------------------------------------------------------------------------
requires_defining_class(f) ==
    Len(f.parameters) >= 2 /\ f.parameters[2].conv = "defining_class"

\* "parameters" of output_templates: without the receiver, and without a
\* defining class right after it
TemplateParameters(f) ==
    IF requires_defining_class(f) THEN SubSeq(f.parameters, 3, Len(f.parameters))
    ELSE Tail(f.parameters)

\* Parameter.is_optional
Parameter_is_optional(p) == ~is_vararg(p) /\ p.default # "unspecified"

\* CConverter.is_optional, of the converter of parameter p
CConverter_is_optional(p) == p.default # "unspecified"

\* CConverter.format_unit of the converters of the registry
format_unit(conv) == IF conv = "int" THEN "i" ELSE "O"

\* converters that cannot be used with the limited C API
BrokenLimitedCapi == {}

broken_limited_capi(conv) == conv \in BrokenLimitedCapi

\* converters whose parse_arg returns None: only the format unit can parse
\* their argument (int and object both have an inline conversion)
LegacyOnly == {}

parse_arg_is_None(conv) == conv \in LegacyOnly

\* CReturnConverter.type
ReturnType(rc) == IF rc = "int" THEN "int" ELSE "PyObject *"

has_option_groups(ps) == ps # <<>> /\ (ps[1].group # 0 \/ ps[Len(ps)].group # 0)

\* simple_return that looks at the return converter alone
simple_return_unlocked(f) == ReturnType(f.return_converter) = "PyObject *"

\* simple_return in CLanguage.output_templates
simple_return(f) == ReturnType(f.return_converter) = "PyObject *" /\ ~f.critical_section

\* CLanguage.NO_VARARG, and an index in its place
NO_VARARG == <<>>

Shape0 ==
    [vararg |-> NO_VARARG, pos_only |-> 0, min_pos |-> 0, max_pos |-> 0,
     min_kw_only |-> 0, pseudo_args |-> 0]

\* the body of "for i, p in enumerate(parameters, 1)"
ShapeStep(s, p, i) ==
    IF is_keyword_only(p)
    THEN IF ~Parameter_is_optional(p) THEN [s EXCEPT !.min_kw_only = i - s.max_pos] ELSE s
    ELSE IF is_vararg(p)
    THEN [s EXCEPT !.pseudo_args = @ + 1, !.vararg = <<i - 1>>]
    ELSE [s EXCEPT !.max_pos = IF s.vararg = NO_VARARG THEN i ELSE @,
                   !.pos_only = IF is_positional_only(p) THEN i ELSE @,
                   !.min_pos = IF ~Parameter_is_optional(p) THEN i ELSE @]

RECURSIVE ShapeLoop(_, _, _)
ShapeLoop(ps, i, s) ==
    IF i > Len(ps) THEN s ELSE ShapeLoop(ps, i + 1, ShapeStep(s, ps[i], i))

Shape(ps) == ShapeLoop(ps, 1, Shape0)

\* a variant that takes a parameter with a default too
meth_o_with_default(f, ps) ==
    /\ Len(ps) = 1
    /\ is_positional_only(ps[1])
    /\ ~requires_defining_class(f)
    /\ ~new_or_init(f.kind)

meth_o(f, ps) ==
    /\ Len(ps) = 1
    /\ is_positional_only(ps[1])
    /\ ~CConverter_is_optional(ps[1])
    /\ ~requires_defining_class(f)
    /\ ~new_or_init(f.kind)

\* the shapes the limited C API cannot parse
LimitedForbids(ps) ==
    \/ Shape(ps).pseudo_args # 0
    \/ /\ \E i \in 1..Len(ps) : Parameter_is_optional(ps[i])
       /\ \E i \in 1..Len(ps) : is_keyword_only(ps[i]) /\ ~Parameter_is_optional(ps[i])
    \/ \E i \in 1..Len(ps) : broken_limited_capi(ps[i].conv)

\* some parameter before the first one whose parse_arg is None is a
\* defining class ("defining_class should be the first parameter")
RECURSIVE LateDefiningClass(_, _)
LateDefiningClass(ps, i) ==
    IF i > Len(ps) THEN FALSE
    ELSE IF ps[i].conv = "defining_class" THEN TRUE
    ELSE IF parse_arg_is_None(ps[i].conv) THEN FALSE
    ELSE LateDefiningClass(ps, i + 1)

\* "parsearg is None" for some parameter the loop reaches
SomeLegacy(ps) == \E i \in 1..Len(ps) : ~is_vararg(ps[i]) /\ parse_arg_is_None(ps[i].conv)

\* what output_templates chose: the exception it raised ("" when none),
\* the value of flags before f.methoddef_flags is appended (a sequence of
\* the names joined by '|'), the parser prototype and the fragment the
\* parser definition is built around ("" for an empty template)
Tmpl(flags, prototype, definition) ==
    [raise |-> "", flags |-> flags, parser_prototype |-> prototype,
     parser_definition |-> definition, impl_prototype |-> "impl_definition"]

Raises(e) ==
    [raise |-> e, flags |-> <<>>, parser_prototype |-> "", parser_definition |-> "",
     impl_prototype |-> ""]

\* "if not parameters:"
NoParameters(f) ==
    IF f.kind = "GETTER" THEN Tmpl(<<>>, "PARSER_PROTOTYPE_GETTER", "no_arguments")
    ELSE IF f.kind = "SETTER" THEN Tmpl(<<>>, "PARSER_PROTOTYPE_SETTER", "no_arguments")
    ELSE IF ~requires_defining_class(f)
    THEN Tmpl(<<"METH_NOARGS">>, "PARSER_PROTOTYPE_NOARGS", "no_arguments")
    ELSE IF new_or_init(f.kind) THEN Raises("AssertionError")
    ELSE Tmpl(<<"METH_METHOD", "METH_FASTCALL", "METH_KEYWORDS">>,
              "PARSER_PROTOTYPE_DEF_CLASS", "takes_no_arguments")

\* "elif meth_o:"
MethO(f, p) ==
    IF p.conv = "object" /\ format_unit(p.conv) = "O"
    THEN IF simple_return(f)
         THEN [Tmpl(<<"METH_O">>, "", "") EXCEPT !.impl_prototype = ""]
         ELSE Tmpl(<<"METH_O">>, "METH_O_PROTOTYPE", "impl_parameters")
    ELSE Tmpl(<<"METH_O">>, "PyObject *arg",
              IF parse_arg_is_None(p.conv) THEN "PyArg_Parse" ELSE "parse_arg")

\* "elif has_option_groups:"
OptionGroups == Tmpl(<<"METH_VARARGS">>, "PARSER_PROTOTYPE_VARARGS", "option_group_parsing")

\* "elif not requires_defining_class and pos_only == len(parameters) - pseudo_args:"
PositionalOnly(f, ps, limited_capi) ==
    IF ~SomeLegacy(ps)
    THEN IF ~new_or_init(f.kind)
         THEN Tmpl(<<"METH_FASTCALL">>, "PARSER_PROTOTYPE_FASTCALL",
                   IF limited_capi THEN "nargs" ELSE "_PyArg_CheckPositional")
         ELSE Tmpl(<<"METH_VARARGS">>, "PARSER_PROTOTYPE_VARARGS",
                   IF limited_capi THEN "nargs" ELSE "_PyArg_CheckPositional")
    ELSE IF ~new_or_init(f.kind) /\ ~limited_capi
    THEN Tmpl(<<"METH_FASTCALL">>, "PARSER_PROTOTYPE_FASTCALL", "_PyArg_ParseStack")
    ELSE Tmpl(<<"METH_VARARGS">>, "PARSER_PROTOTYPE_VARARGS", "PyArg_ParseTuple")

\* the general case up to "if requires_defining_class:": flags is <<>>
\* while the name is unbound
Unpacker(ps) ==
    IF Shape(ps).vararg = NO_VARARG THEN "_PyArg_UnpackKeywords"
    ELSE "_PyArg_UnpackKeywordsWithVararg"

GeneralFirst(f, ps, limited_capi) ==
    IF limited_capi THEN Tmpl(<<>>, "", "")
    ELSE IF ~new_or_init(f.kind)
    THEN Tmpl(<<"METH_FASTCALL", "METH_KEYWORDS">>, "PARSER_PROTOTYPE_FASTCALL_KEYWORDS",
              Unpacker(ps))
    ELSE Tmpl(<<"METH_VARARGS", "METH_KEYWORDS">>, "PARSER_PROTOTYPE_KEYWORD", Unpacker(ps))

\* "if requires_defining_class: flags = 'METH_METHOD|' + flags"
WithDefiningClass(f, t) ==
    IF ~requires_defining_class(f) THEN t
    ELSE IF t.flags = <<>> THEN Raises("UnboundLocalError")
    ELSE [t EXCEPT !.flags = <<"METH_METHOD">> \o @,
                   !.parser_prototype = "PARSER_PROTOTYPE_DEF_CLASS"]

\* the general case from "if parser_code is not None:" on, t what was
\* chosen so far
GeneralRest(f, ps, limited_capi, t) ==
    IF t.raise # "" THEN t
    ELSE IF ~limited_capi /\ LateDefiningClass(ps, 1) THEN Raises("ValueError")
    ELSE IF ~limited_capi /\ ~SomeLegacy(ps) THEN t
    ELSE IF limited_capi
    THEN [t EXCEPT !.flags = <<"METH_VARARGS", "METH_KEYWORDS">>,
                   !.parser_prototype = "PARSER_PROTOTYPE_KEYWORD",
                   !.parser_definition = "PyArg_ParseTupleAndKeywords"]
    ELSE IF ~new_or_init(f.kind)
    THEN [t EXCEPT !.parser_definition = "_PyArg_ParseStackAndKeywords"]
    ELSE [t EXCEPT !.parser_definition = "_PyArg_ParseTupleAndKeywordsFast"]

General(f, ps, limited_capi) ==
    GeneralRest(f, ps, limited_capi,
                WithDefiningClass(f, GeneralFirst(f, ps, limited_capi)))

\* the chain "if not parameters: ... elif meth_o: ... else"
SelectTemplate(f, ps, limited_capi) ==
    IF ps = <<>> THEN NoParameters(f)
    ELSE IF meth_o(f, ps) THEN MethO(f, ps[1])
    ELSE IF has_option_groups(ps) THEN OptionGroups
    ELSE IF ~requires_defining_class(f)
            /\ Shape(ps).pos_only = Len(ps) - Shape(ps).pseudo_args
    THEN PositionalOnly(f, ps, limited_capi)
    ELSE General(f, ps, limited_capi)

InFlags(name, flags) == \E i \in 1..Len(flags) : flags[i] = name

\* "if new_or_init:"
SlotWrapper(f, t) ==
    IF t.raise # "" \/ ~new_or_init(f.kind) THEN t
    ELSE IF requires_defining_class(f) THEN Raises("ValueError")
    ELSE [t EXCEPT !.parser_prototype =
                       IF f.kind = "METHOD_NEW" THEN "PARSER_PROTOTYPE_KEYWORD"
                       ELSE "PARSER_PROTOTYPE_KEYWORD___INIT__",
                   !.parser_definition =
                       IF InFlags("METH_KEYWORDS", t.flags) THEN @
                       ELSE IF InFlags("METH_NOARGS", t.flags)
                       THEN "_PyArg_NoPositional"
                       ELSE "_PyArg_NoKeywords"]

\* a variant that never warns
LimitedDowngrade_silent(ps, limited_capi) == FALSE

\* "if limited_capi and (...): warn(...); limited_capi = False"
LimitedDowngrade(ps, limited_capi) == limited_capi /\ LimitedForbids(ps)

\* CLanguage.output_templates: what it chose, and whether it warned that
\* the function cannot use the limited C API
output_templates(f, limited_capi) ==
    IF f.kind = "SETTER" /\ f.docstring # <<>>
    THEN [raise |-> "docstrings are only supported for @getter, not @setter",
          flags |-> <<>>, parser_prototype |-> "", parser_definition |-> "",
          impl_prototype |-> "", warn |-> FALSE, limited_capi |-> limited_capi]
    ELSE [warn |-> LimitedDowngrade(TemplateParameters(f), limited_capi),
          limited_capi |-> limited_capi /\ ~LimitedForbids(TemplateParameters(f))]
         @@ SlotWrapper(f, SelectTemplate(f, TemplateParameters(f),
                                          limited_capi /\ ~LimitedForbids(TemplateParameters(f))))

\* CLanguage.output_templates: whether the template of a fragment is ''
TemplateIsEmpty(f, t, frag) ==
    CASE frag \in {"cpp_if", "cpp_endif"} -> ~t.conditional
      [] frag = "methoddef_ifndef" -> ~t.ifndef
      [] frag = "docstring_prototype" ->
            (new_or_init(f.kind) /\ f.docstring = <<>>) \/ f.kind \in {"GETTER", "SETTER"}
      [] frag = "docstring_definition" ->
            \/ new_or_init(f.kind) /\ f.docstring = <<>>
            \/ f.kind = "GETTER" /\ f.docstring = <<>>
            \/ f.kind = "SETTER"
      [] frag = "methoddef_define" -> new_or_init(f.kind)
      [] frag = "parser_prototype" -> t.parser_prototype = ""
      [] frag = "parser_definition" -> t.parser_definition = ""
      [] frag = "impl_prototype" -> t.impl_prototype = ""
      [] OTHER -> FALSE

\* the formatted template of one fragment, with line_prefix and line_suffix
FragmentText(c, f, t, frag) ==
    IF TemplateIsEmpty(f, t, frag) THEN <<>>
    ELSE <<Piece(frag, f, c.line_prefix, c.line_suffix)>>

\* "for name, destination in clinic.destination_buffers.items()"
RECURSIVE RouteFragments(_, _, _, _)
RouteFragments(c, f, t, i) ==
    IF i > Len(FragmentOrder) THEN c
    ELSE RouteFragments(BufferAppend(c, c.destination_buffers[FragmentOrder[i]],
                                     FragmentText(c, f, t, FragmentOrder[i])),
                        f, t, i + 1)

\* a variant of the check that looks for no positional-only parameter
OptionGroupsFail_unchecked(f) == FALSE

\* the option-group check of render_function
OptionGroupsFail(f) ==
    LET ps == f.parameters
        has_groups == \E i \in 1..Len(ps) : ps[i].group # 0
        positional == Len(ps) > 1 /\ is_positional_only(ps[Len(ps)])
    IN  has_groups /\ ~positional

\* render_option_group_parsing: one turn of "for p in parameters", s the
\* lists left, required, right, the group id seen last and the list that
\* "group" names
GroupStep(s, p) ==
    IF s.last = <<p.group>>
    THEN IF s.cur = "left" THEN [s EXCEPT !.left[Len(s.left)] = Append(@, p)]
         ELSE IF s.cur = "right" THEN [s EXCEPT !.right[Len(s.right)] = Append(@, p)]
         ELSE [s EXCEPT !.required = Append(@, p)]
    ELSE IF p.group < 0
    THEN [s EXCEPT !.last = <<p.group>>, !.cur = "left", !.left = Append(@, <<p>>)]
    ELSE IF p.group = 0
    THEN [s EXCEPT !.last = <<p.group>>, !.cur = "required", !.required = Append(@, p)]
    ELSE [s EXCEPT !.last = <<p.group>>, !.cur = "right", !.right = Append(@, <<p>>)]

RECURSIVE GroupLoop(_, _)
GroupLoop(ps, s) == IF ps = <<>> THEN s ELSE GroupLoop(Tail(ps), GroupStep(s, Head(ps)))

\* left, required and right of render_option_group_parsing
OptionGroupsOf(f) ==
    GroupLoop(Tail(f.parameters),
              [left |-> <<>>, required |-> <<>>, right |-> <<>>, last |-> <<>>,
               cur |-> ""])

\* the argument counts of the cases of the switch, in the order written
SwitchCases(g) ==
    [i \in 1..Len(permute_optional_groups(g.left, g.required, g.right)) |->
        Len(permute_optional_groups(g.left, g.required, g.right)[i])]

\* render_option_group_parsing: the exception it raises, or ""
render_option_group_parsing_fail(g) ==
    IF permute_raises(g.left, g.required) THEN "ValueError" ELSE ""

WarningLimited(f) == [text |-> "cannot use limited C API", name |-> f.full_name]

\* what render_function does once the templates are chosen and the
\* fragments are routed, c the Clinic object after the routing
RenderTemplates(ctx, f, t, c) ==
    IF t.raise # "" THEN Fail(ctx, t.raise)
    ELSE IF OptionGroupsFail(f)
    THEN Fail(ctx, "You cannot use optional groups unless all parameters are positional-only")
    ELSE IF (\E i \in 1..Len(f.parameters) : f.parameters[i].group # 0)
            /\ render_option_group_parsing_fail(OptionGroupsOf(f)) # ""
    THEN Fail(ctx, render_option_group_parsing_fail(OptionGroupsOf(f)))
    ELSE [ctx EXCEPT !.clinic = [c EXCEPT !.destinations[DestIndex(c, "block")].buffers =
                                              BufferSeries_clear(@)],
                     !.block.output =
                         @ \o BufferSeries_dump(c.destinations[DestIndex(c, "block")].buffers)]

RouteTemplates(ctx, f, t) ==
    RenderTemplates(ctx, f, t, RouteFragments(ctx.clinic, f, t, 1))

\* warn(f"Function {f.full_name} cannot use limited C API")
Warned(ctx, f, t) ==
    IF t.warn THEN [ctx EXCEPT !.clinic.warnings = Append(@, WarningLimited(f))] ELSE ctx

WarnTemplates(ctx, f, t) == RouteTemplates(Warned(ctx, f, t), f, t)

\* "conditional = self.cpp.condition()": the preprocessor conditions that
\* the lines of the file read so far have opened and not closed
Conditional(c) == c.cpp # <<>>

\* "if methoddef_define and f.full_name not in clinic.ifndef_symbols"
NeedsIfndef(c, f) ==
    Conditional(c) /\ ~new_or_init(f.kind) /\ f.full_name \notin c.ifndef_symbols

\* the end of output_templates: cpp_if, cpp_endif and methoddef_ifndef
CppTemplates(c, f, t) ==
    [conditional |-> t.raise = "" /\ Conditional(c),
     ifndef |-> t.raise = "" /\ NeedsIfndef(c, f)] @@ t

\* "clinic.ifndef_symbols.add(f.full_name)"
NoteIfndef(ctx, f, t) ==
    IF t.raise = "" /\ NeedsIfndef(ctx.clinic, f)
    THEN [ctx EXCEPT !.clinic.ifndef_symbols = @ \cup {f.full_name}]
    ELSE ctx

RenderGuarded(ctx, f, t) ==
    WarnTemplates(NoteIfndef(ctx, f, t), f, CppTemplates(ctx.clinic, f, t))

\* CLanguage.render_function: routes the fragments, returns the dump of
\* destination 'block' (appended to block.output by DSLParser.parse)
render_function(ctx, f) ==
    RenderGuarded(ctx, f, output_templates(f, ctx.clinic.limited_capi))

\* CLanguage.render
render(ctx) ==
    LET sigs == ctx.block.signatures
        fs == {i \in 1..Len(sigs) : sigs[i].t = "function"}
    IN  IF fs = {} THEN ctx
        ELSE IF Cardinality(fs) > 1
        THEN Fail(ctx, "You may specify at most one function per block.")
        ELSE render_function(ctx, ctx.clinic.functions[sigs[CHOOSE i \in fs : TRUE].ref])

\* the check with the saved output left out of the block
preserve_check_discards(c2) ==
    IF c2.err # "" THEN c2
    ELSE IF c2.dsl.preserve_output
    THEN IF c2.block.appended \/ c2.block.output # <<>>
         THEN Fail(c2, "'preserve' only works for blocks that don't produce any output!")
         ELSE c2
    ELSE c2

\* "if self.preserve_output:", after the rendering
preserve_check(c2) ==
    IF c2.err # "" THEN c2
    ELSE IF c2.dsl.preserve_output
    THEN IF c2.block.appended \/ c2.block.output # <<>>
         THEN Fail(c2, "'preserve' only works for blocks that don't produce any output!")
         ELSE [c2 EXCEPT !.block.output = c2.dsl.saved_output]
    ELSE c2

\* "block.output.append(self.clinic.language.render(...))"
render_block(c1) == IF c1.err # "" THEN c1 ELSE preserve_check(render(c1))

\* the part of DSLParser.parse after the loop over the lines
FinishBlock(ctx) == render_block(do_post_block_processing_cleanup(ctx))

\* DSLParser.reset; parameter_docstring_indent and saved_output are
\* attributes reset() leaves alone
reset(d) ==
    [function |-> 0, state |-> "dsl_start", keyword_only |-> FALSE,
     positional_only |-> FALSE, deprecated_positional |-> NoVersion,
     deprecated_keyword |-> NoVersion, group |-> 0, parameter_state |-> "START",
     indent |-> IndentStack, kind |-> "CALLABLE", coexist |-> FALSE,
     forced_text_signature |-> "", parameter_continuation |-> NoContinuation,
     preserve_output |-> FALSE, critical_section |-> FALSE,
     target_critical_section |-> <<>>,
     parameter_docstring_indent |-> d.parameter_docstring_indent,
     saved_output |-> d.saved_output]

\* DSLParser.__init__
DSLParser == reset([parameter_docstring_indent |-> -1, saved_output |-> <<>>])

\* Block(input, dsl_name, output) as the DSL parser sees it; appended tells
\* whether the list block.output holds a string, be it the empty one
Block(output) == [output |-> output, signatures |-> <<>>, appended |-> FALSE]

\* the start of DSLParser.parse: reset, saved_output, block.output = []
BeginBlock(d, b) ==
    [dsl |-> [reset(d) EXCEPT !.saved_output = b.output],
     block |-> [b EXCEPT !.output = <<>>, !.appended = FALSE]]

\* ------------------------------------------------------------------------
\* Specification of permute_optional_groups over bounded arguments
\* ------------------------------------------------------------------------
\* the sequences of group sizes: at most MaxGroups groups of 1..MaxGroupSize
GroupSizes ==
    UNION {[1..n -> 1..MaxGroupSize] : n \in 0..MaxGroups}

\* groups of the given sizes over consecutive parameters first, first + 1, ...
RECURSIVE BuildGroups(_, _)
BuildGroups(sizes, first) ==
    IF sizes = <<>> THEN <<>>
    ELSE <<[i \in 1..Head(sizes) |-> first + i - 1]>>
         \o BuildGroups(Tail(sizes), first + Head(sizes))

PermuteIdle == [left |-> <<>>, required |-> <<>>, right |-> <<>>,
                result |-> <<>>, status |-> "idle"]

NoLine == [kind |-> "none", tab |-> FALSE]

\* no file and no call of parse_file
NoFiles == [host |-> <<>>, sidecar |-> <<>>, sidecar_exists |-> FALSE, pristine |-> FALSE,
            other |-> <<>>, other_exists |-> FALSE]
NoRun == [n |-> 0, force |-> FALSE, raw |-> <<>>, rest |-> <<>>, printer |-> <<>>,
          cooked |-> <<>>, files0 |-> NoFiles, generated |-> FALSE]

ParserIdle ==
    /\ files = NoFiles
    /\ run = NoRun
    /\ dsl = DSLParser
    /\ clinic = Clinic(TRUE, FALSE)
    /\ block = Block(<<>>)
    /\ err = ""
    /\ line = NoLine
    /\ hist = <<>>
    /\ pc = "idle"

InitPerm ==
    /\ \E ls \in GroupSizes, n \in 0..MaxRequired, rs \in GroupSizes :
          LET left == BuildGroups(ls, 1)
              nl == SumSeq(ls)
          IN  pg = [left |-> left,
                    required |-> [i \in 1..n |-> nl + i],
                    right |-> BuildGroups(rs, nl + n + 1),
                    result |-> <<>>, status |-> "args"]
    /\ ParserIdle

\* the call returns the tuples
Permute ==
    /\ pg.status = "args"
    /\ ~permute_raises(pg.left, pg.required)
    /\ pg' = [pg EXCEPT !.status = "returned",
                        !.result = permute_optional_groups(pg.left, pg.required, pg.right)]
    /\ UNCHANGED <<dsl, clinic, block, err, line, hist, pc, files, run>>

\* the call raises ValueError
PermuteRaises ==
    /\ pg.status = "args"
    /\ permute_raises(pg.left, pg.required)
    /\ pg' = [pg EXCEPT !.status = "raised"]
    /\ UNCHANGED <<dsl, clinic, block, err, line, hist, pc, files, run>>

NextPerm == Permute \/ PermuteRaises

SpecPerm == InitPerm /\ [][NextPerm]_vars

\* ------------------------------------------------------------------------
\* Properties of permute_optional_groups
\* ------------------------------------------------------------------------
\* the call left=[[A],[B]], required=[C], right=[[D],[E]] (A..E = 1..5)
ExampleCall ==
    /\ pg.left = <<(<<1>>), (<<2>>)>>
    /\ pg.required = <<3>>
    /\ pg.right = <<(<<4>>), (<<5>>)>>

\* C4 (as the code behaves): for left=[[A],[B]], required=[C],
\* right=[[D],[E]] the function returns exactly five tuples, one per length:
\* (C), (B,C), (A,B,C), (A,B,C,D), (A,B,C,D,E).
C4_FiveTuples ==
    (ExampleCall /\ pg.status = "returned") =>
        pg.result = <<(<<3>>), (<<2, 3>>), (<<1, 2, 3>>), (<<1, 2, 3, 4>>),
                      (<<1, 2, 3, 4, 5>>)>>

\* C4 (as stated): the same call returns the nine tuples (C), (B,C), (C,D),
\* (A,B,C), (B,C,D), (C,D,E), (A,B,C,D), (B,C,D,E), (A,B,C,D,E).
C4_NineTuples ==
    (ExampleCall /\ pg.status = "returned") =>
        pg.result = <<(<<3>>), (<<2, 3>>), (<<3, 4>>), (<<1, 2, 3>>), (<<2, 3, 4>>),
                      (<<3, 4, 5>>), (<<1, 2, 3, 4>>), (<<2, 3, 4, 5>>),
                      (<<1, 2, 3, 4, 5>>)>>

\* the example call has returned
C4_Witness == ExampleCall /\ pg.status = "returned"

\* the j left groups nearest to the required run + required + the first i right groups
GroupForm(j, i) ==
    Flatten(SubSeq(pg.left, Len(pg.left) - j + 1, Len(pg.left)))
    \o pg.required
    \o Flatten(SubSeq(pg.right, 1, i))

GroupChoices == (0..Len(pg.left)) \X (0..Len(pg.right))

\* the choice (j, i) of a given length with the most left groups
BestChoice(n) ==
    CHOOSE c \in GroupChoices :
        /\ Len(GroupForm(c[1], c[2])) = n
        /\ \A d \in GroupChoices : Len(GroupForm(d[1], d[2])) = n => d[1] <= c[1]

ReachableLengths == {Len(GroupForm(c[1], c[2])) : c \in GroupChoices}

\* C5: the returned tuples have strictly increasing lengths; there is
\* exactly one per length reachable by some (j, i), and it is the form with
\* the most left groups (hence the fewest right groups) of that length.
C5_PermutationRule ==
    pg.status = "returned" =>
        /\ \A x \in 1..(Len(pg.result) - 1) : Len(pg.result[x]) < Len(pg.result[x + 1])
        /\ {Len(pg.result[x]) : x \in 1..Len(pg.result)} = ReachableLengths
        /\ \A x \in 1..Len(pg.result) :
              LET c == BestChoice(Len(pg.result[x]))
              IN  /\ pg.result[x] = GroupForm(c[1], c[2])
                  /\ \A d \in GroupChoices :
                        Len(GroupForm(d[1], d[2])) = Len(pg.result[x]) => c[2] <= d[2]

\* a call returned where one length is reachable by two different choices
C5_Witness ==
    /\ pg.status = "returned"
    /\ \E c, d \in GroupChoices :
          c # d /\ Len(GroupForm(c[1], c[2])) = Len(GroupForm(d[1], d[2]))

\* ------------------------------------------------------------------------
\* Specification of DSLParser.parse over one block, fed line by line
\* ------------------------------------------------------------------------
\* directive and header lines, written at the left margin
StartLines == {<<"preserve">>, <<"f">>}

\* the column of the parameter lines and the columns of docstring lines
ParameterIndents == {4}
DocstringIndents == {0, 2, 8}

\* the names of the parameters a block declares, in this order
ParameterNames == <<"a", "b", "c">>

\* the markers of the parameter section
MarkerLines ==
    {<<"*">>, <<"/">>, <<"[">>, <<"]">>,
     <<"*", "[from 3.14]">>, <<"*", "[from 3.15]">>, <<"/", "[from 3.14]">>}

\* parameter-section lines once n of ParameterNames are declared: the next
\* name (plain, or split over a continuation), the last name again, *args,
\* an explicit self, and the markers
ParameterLines(n) ==
    MarkerLines
    \cup {<<"*args", ":", "object">>, <<"self", ":", "self">>, <<":", "int">>}
    \cup (IF n < Len(ParameterNames) THEN {<<ParameterNames[n + 1], ":", "int">>} ELSE {})
    \cup (IF n < Len(ParameterNames) /\ dsl.parameter_continuation = NoContinuation
          THEN {<<ParameterNames[n + 1], "\\">>}
          ELSE {})
    \cup (IF n > 0 THEN {<<ParameterNames[n], ":", "int">>} ELSE {})

DocstringLines == {<<"text">>}

\* what the model keeps of a line: comment-only, blank or text, and
\* whether it holds a tab character
LineClass(ln) ==
    [kind |-> IF IsComment(ln) THEN "comment" ELSE IF IsBlank(ln) THEN "blank" ELSE "text",
     tab |-> ln.tab]

RECURSIVE DocLinesTotal(_)
DocLinesTotal(ps) ==
    IF ps = <<>> THEN 0 ELSE Len(Head(ps).docstring) + DocLinesTotal(Tail(ps))

\* the lines the model feeds in the current state of the parser
LinesToFeed ==
    LET st == dsl.state
        doc == IF dsl.function = 0 THEN <<>>
               ELSE clinic.functions[dsl.function].docstring
        ps == IF dsl.function = 0 THEN <<>>
              ELSE clinic.functions[dsl.function].parameters
        more == Len(hist) < MaxHist
        n == Cardinality({i \in 1..Len(ps) :
                             \E k \in 1..Len(ParameterNames) : ps[i].name = ParameterNames[k]})
        moredoc == Len(doc) + DocLinesTotal(ps) < MaxDocLines
    IN  (IF st = "dsl_start"
         THEN {[indent |-> 0, toks |-> t, tab |-> FALSE] : t \in StartLines} ELSE {})
        \cup (IF st \in {"parameters_start", "parameter", "parameter_docstring"} /\ more
              THEN {[indent |-> i, toks |-> t, tab |-> FALSE] :
                       i \in ParameterIndents, t \in ParameterLines(n)}
              ELSE {})
        \cup (IF st # "dsl_start" /\ moredoc
              THEN {[indent |-> i, toks |-> t, tab |-> FALSE] :
                       i \in DocstringIndents, t \in DocstringLines}
              ELSE {})
        \cup (IF in_docstring(dsl) => moredoc
              THEN {[indent |-> i, toks |-> t, tab |-> b] :
                       i \in {0} \cup ParameterIndents, t \in {<<>>, <<"#">>}, b \in BOOLEAN}
              ELSE {})

InitDSL ==
    /\ pg = PermuteIdle
    /\ files = NoFiles
    /\ run = NoRun
    /\ dsl = DSLParser
    /\ clinic = Clinic(TRUE, FALSE)
    /\ block = Block(<<Piece("old", [args |-> <<>>], "", "")>>)
    /\ err = ""
    /\ line = NoLine
    /\ hist = <<>>
    /\ pc = "idle"

\* DSLParser.parse, up to the loop over the lines
ParseBegin ==
    /\ pc = "idle"
    /\ dsl' = BeginBlock(dsl, block).dsl
    /\ block' = BeginBlock(dsl, block).block
    /\ pc' = "lines"
    /\ UNCHANGED <<pg, clinic, err, line, hist, files, run>>

\* one turn of the loop over the lines
ParseNextLine ==
    /\ pc = "lines"
    /\ err = ""
    /\ \E ln \in LinesToFeed :
          \E r \in {ParseLine(Ctx(dsl, clinic, block, err, hist), ln)} :
              /\ line' = LineClass(ln)
              /\ dsl' = r.dsl
              /\ clinic' = r.clinic
              /\ block' = r.block
              /\ err' = r.err
              /\ hist' = r.hist
    /\ UNCHANGED <<pg, pc, files, run>>

\* DSLParser.parse, after the loop
ParseEnd ==
    /\ pc = "lines"
    /\ err = ""
    /\ \E r \in {FinishBlock(Ctx(dsl, clinic, block, err, hist))} :
           /\ dsl' = r.dsl
           /\ clinic' = r.clinic
           /\ block' = r.block
           /\ err' = r.err
           /\ hist' = r.hist
    /\ pc' = "done"
    /\ UNCHANGED <<pg, line, files, run>>

NextDSL == ParseBegin \/ ParseNextLine \/ ParseEnd

SpecDSL == InitDSL /\ [][NextDSL]_vars

\* ------------------------------------------------------------------------
\* Properties of the parameter section, checked under SpecDSL
\* ------------------------------------------------------------------------
ctxNow == Ctx(dsl, clinic, block, err, hist)

IsStar(e) == e.sym = "*"
IsSlash(e) == e.sym = "/"
IsParam(e) == e.sym = "param"
Versioned(e) == e.ver # NoVersion

Entry(sym, ver, key) == [sym |-> sym, ver |-> ver, key |-> key]

\* hist[i] declares a parameter that the function still has: an explicit
\* self clears function.parameters, the receiver declared before it included
Declares(i) ==
    /\ IsParam(hist[i])
    /\ \A j \in (i + 1)..Len(hist) : ~(IsParam(hist[j]) /\ hist[j].key = "self")

\* the parameter of the current function that the accepted line hist[i] declared
Declared(i) ==
    LET ps == clinic.functions[dsl.function].parameters
    IN  ps[CHOOSE k \in 1..Len(ps) : ps[k].name = hist[i].key]

\* the '*' marker in force at position i: the index of the last '*' line
\* (versioned or not) accepted before hist[i], 0 when there is none
StarBefore(i) ==
    LET before == {j \in 1..(i - 1) : IsStar(hist[j])}
    IN  IF before = {} THEN 0 ELSE CHOOSE j \in before : \A k \in before : k <= j

\* the parser stands in the parameter section of a block it has accepted so far
InParameterSection ==
    /\ pc = "lines"
    /\ err = ""
    /\ dsl.state \in {"parameter", "parameter_docstring"}
    /\ dsl.parameter_continuation = NoContinuation

\* the lines skipped by valid_line outside docstrings: comment-only and blank
SkippedLines(tabs) ==
    {[indent |-> i, toks |-> t, tab |-> b] :
        i \in {0} \cup ParameterIndents \cup DocstringIndents,
        t \in {<<>>, <<"#">>, <<"#", "*">>},
        b \in tabs}

\* C3 (as the code has it): outside the docstring states, a comment-only or
\* blank line that holds no tab character leaves the parser, the function
\* model, the block and the outcome exactly as they were, so inserting,
\* deleting or moving such lines changes nothing.
C3_SkippedLinesChangeNothing ==
    (pc = "lines" /\ err = "" /\ ~in_docstring(dsl))
        => \A ln \in SkippedLines({FALSE}) : ParseLine(ctxNow, ln) = ctxNow

\* C3 as stated: the same for every comment-only or blank line, whatever
\* characters it holds.
C3_AnySkippedLineChangesNothing ==
    (pc = "lines" /\ err = "" /\ ~in_docstring(dsl))
        => \A ln \in SkippedLines(BOOLEAN) : ParseLine(ctxNow, ln) = ctxNow

\* a comment-only line was fed between the two halves of a continued
\* parameter declaration, after a marker had been accepted
C3_Witness ==
    /\ pc = "lines"
    /\ err = ""
    /\ line = [kind |-> "comment", tab |-> FALSE]
    /\ dsl.state = "parameter"
    /\ dsl.parameter_continuation # NoContinuation
    /\ hist # <<>>

\* the block held the header and the accepted lines of hist alone: no
\* 'preserve' directive and no docstring line
OnlyParameterLines ==
    /\ dsl.function # 0
    /\ ~dsl.preserve_output
    /\ LET f == clinic.functions[dsl.function]
       IN  f.docstring = <<>> /\ \A k \in 1..Len(f.parameters) : f.parameters[k].docstring = <<>>

\* the block of the specification's example: a, '/ [from 3.14]', b,
\* '* [from 3.15]', c
C6_Example ==
    <<Entry("param", NoVersion, "a"), Entry("/", <<3, 14>>, ""),
      Entry("param", NoVersion, "b"), Entry("*", <<3, 15>>, ""),
      Entry("param", NoVersion, "c")>>

\* C6: among the lines a parameter block gets accepted, no '/' marker
\* (versioned or not) follows a '*' marker (versioned or not) and no
\* unversioned '/' follows a '/ [from v]'; and the block a, '/ [from 3.14]',
\* b, '* [from 3.15]', c is accepted to the end.
C6_SlashBeforeStar ==
    /\ \A i, j \in 1..Len(hist) :
          (i < j /\ IsStar(hist[i])) => ~IsSlash(hist[j])
    /\ \A i, j \in 1..Len(hist) :
          (i < j /\ IsSlash(hist[i]) /\ Versioned(hist[i]))
              => ~(IsSlash(hist[j]) /\ ~Versioned(hist[j]))
    /\ (pc = "done" /\ OnlyParameterLines /\ hist = C6_Example) => err = ""

C6_Witness ==
    /\ pc = "done"
    /\ err = ""
    /\ hist = C6_Example
    /\ block.output # <<>>

\* C7 (as the code has it): among the accepted lines no '* [from v]' follows
\* the unversioned '*'; the unversioned '*' may follow '* [from v]', and the
\* block '* [from 3.14]', a, '*', b is accepted to the end.
C7_Example ==
    <<Entry("*", <<3, 14>>, ""), Entry("param", NoVersion, "a"),
      Entry("*", NoVersion, ""), Entry("param", NoVersion, "b")>>

C8_StarMarksFollowing ==
    (err = "" /\ dsl.function # 0) =>
        \A i \in 1..Len(hist) :
            Declares(i) =>
                LET p == Declared(i)
                    s == StarBefore(i)
                IN  /\ p.deprecated_positional =
                          (IF s = 0 THEN NoVersion ELSE hist[s].ver)
                    /\ (s # 0 /\ ~Versioned(hist[s]) /\ ~is_vararg(p) /\ p.conv # "self")
                          => is_keyword_only(p)

\* C8 as stated: '* [from v]' attaches v to the parameters declared before
\* the marker and not to those declared after it.
C8_StarMarksPreceding ==
    (err = "" /\ dsl.function # 0) =>
        \A j \in 1..Len(hist) :
            (IsStar(hist[j]) /\ Versioned(hist[j])) =>
                \A i \in 1..Len(hist) :
                    Declares(i) =>
                        IF i < j
                        THEN Declared(i).deprecated_positional = hist[j].ver
                        ELSE Declared(i).deprecated_positional # hist[j].ver

\* a, '* [from v]', b were accepted: a carries no version, b carries v
C8_Witness ==
    /\ err = ""
    /\ dsl.function # 0
    /\ \E i, j, k \in 1..Len(hist) :
          /\ i < j /\ j < k
          /\ Declares(i) /\ Declares(k)
          /\ IsStar(hist[j]) /\ Versioned(hist[j])
          /\ Declared(i).deprecated_positional = NoVersion
          /\ Declared(k).deprecated_positional = hist[j].ver

\* C9: once an unversioned '*' is accepted, a later unversioned '*' line of
\* the parameter section is rejected, and likewise for '/', whatever was
\* accepted in between; so the accepted lines hold each at most once.
C9_UnversionedMarkerOnce ==
    /\ \A s \in {"*", "/"} :
          (InParameterSection /\ \E i \in 1..Len(hist) : hist[i] = Entry(s, NoVersion, ""))
              => \A ind \in ParameterIndents :
                    ParseLine(ctxNow, [indent |-> ind, toks |-> <<s>>, tab |-> FALSE]).err # ""
    /\ \A i, j \in 1..Len(hist) :
          (i < j /\ hist[i].sym \in {"*", "/"} /\ ~Versioned(hist[i]))
              => hist[j] # hist[i]

\* a second '*' was rejected with a parameter and another marker between the two
C9_Witness ==
    /\ err = "uses '*' more than once"
    /\ \E i, j, k \in 1..Len(hist) :
          /\ i < j /\ j # k /\ i < k
          /\ hist[i] = Entry("*", NoVersion, "")
          /\ IsParam(hist[j])
          /\ hist[k].sym \in {"[", "]"}

\* C10: in every accepted block each '*' and each '* [from v]' marker is
\* followed by a parameter it applies to: a keyword-only one for '*', one
\* carrying v for '* [from v]'.
C10_EveryStarHasItsParameter ==
    (pc = "done" /\ err = "" /\ dsl.function # 0) =>
        \A j \in 1..Len(hist) :
            IsStar(hist[j]) =>
                \E i \in (j + 1)..Len(hist) :
                    /\ Declares(i)
                    /\ IF Versioned(hist[j])
                       THEN Declared(i).deprecated_positional = hist[j].ver
                       ELSE is_keyword_only(Declared(i))

\* C11: every block that is parsed and rendered without error ends with the
\* group counter at 0: each '[' of the block has its ']'.
C11_BracketsBalance ==
    (pc = "done" /\ err = "" /\ dsl.function # 0) => dsl.group = 0

StartLine == [t |-> "start", v |-> <<>>]
StopLine == [t |-> "stop", v |-> <<>>]
TextLine(x) == [t |-> "text", v |-> <<x>>]

\* libclinic.compute_checksum, taken to be free of collisions
compute_checksum(text) == [sha1 |-> text]

ChecksumLine(output, input) ==
    [t |-> "checksum", v |-> <<compute_checksum(output), compute_checksum(input)>>]

\* the text of a run of text lines
RECURSIVE TextOf(_)
TextOf(lines) ==
    IF lines = <<>> THEN <<>> ELSE <<Head(lines).v[1]>> \o TextOf(Tail(lines))

\* index of the first line of kind t at or after position i, 0 when none
RECURSIVE FindLine(_, _, _)
FindLine(lines, kinds, i) ==
    IF i > Len(lines) THEN 0
    ELSE IF lines[i].t \in kinds THEN i
    ELSE FindLine(lines, kinds, i + 1)

\* a Block of the host file; absent is TRUE for output=None
FileBlock(dsl_name, input, output, absent) ==
    [dsl_name |-> dsl_name, input |-> input, output |-> output, absent |-> absent]

\* BlockParser.__next__: the next block of the lines left, [fail, block, rest].
\* Prose runs up to the next start marker.  A clinic block takes its input
\* up to the stop marker and its output up to the checksum line, whose two
\* hashes are verified; without a checksum line before the next start
\* marker the block has no output and the lines read are put back.
BlockParser_next(lines, verify) ==
    LET start == FindLine(lines, {"start"}, 1)
        stop == FindLine(lines, {"stop"}, 2)
        stopx == IF stop = 0 THEN Len(lines) + 1 ELSE stop
        input == TextOf(SubSeq(lines, 2, stopx - 1))
        sum == FindLine(lines, {"checksum", "start"}, stopx + 1)
        found == sum # 0 /\ lines[sum].t = "checksum"
        output == IF found THEN TextOf(SubSeq(lines, stopx + 1, sum - 1)) ELSE <<>>
        mismatch == found /\ verify
                    /\ (\/ lines[sum].v[1] # compute_checksum(output)
                        \/ lines[sum].v[2] # compute_checksum(input))
    IN  IF start # 1
        THEN LET n == IF start = 0 THEN Len(lines) ELSE start - 1
             IN  [fail |-> "",
                  block |-> FileBlock("", TextOf(SubSeq(lines, 1, n)), <<>>, TRUE),
                  rest |-> SubSeq(lines, n + 1, Len(lines))]
        ELSE [fail |-> IF mismatch THEN "Checksum mismatch" ELSE "",
              block |-> FileBlock("clinic", input, output, ~found),
              rest |-> IF found THEN SubSeq(lines, sum + 1, Len(lines))
                       ELSE SubSeq(lines, stopx + 1, Len(lines))]

\* list(BlockParser(text))
RECURSIVE BlocksOf(_)
BlocksFrom(nb) == <<nb.block>> \o BlocksOf(nb.rest)

BlocksOf(lines) ==
    IF lines = <<>> THEN <<>> ELSE BlocksFrom(BlockParser_next(lines, FALSE))

\* BlockPrinter.print_block: the lines it writes (no #include lines)
print_block(b) ==
    IF b.dsl_name = "" THEN [i \in 1..Len(b.input) |-> TextLine(b.input[i])]
    ELSE <<StartLine>>
         \o [i \in 1..Len(b.input) |-> TextLine(b.input[i])]
         \o <<StopLine>>
         \o [i \in 1..Len(b.output) |-> TextLine(b.output[i])]
         \o <<ChecksumLine(b.output, b.input)>>

\* print_block's assertion: dsl_name and output are given together
print_block_asserts(b) == (b.dsl_name = "") = b.absent

\* the loop of DSLParser.parse over block.input.split('\n')
RECURSIVE ParseLines(_, _)
ParseLines(ctx, lines) ==
    IF lines = <<>> \/ ctx.err # "" THEN ctx
    ELSE ParseLines(ParseLine(ctx, Head(lines)), Tail(lines))

\* DSLParser.parse(block); absent tells whether the outcome has output=None
ParseOutcome(ctx2, b) ==
    [ctx |-> ctx2,
     absent |-> ctx2.err = "" /\ ctx2.dsl.preserve_output /\ b.absent]

\* DSLParser.parse after the loop, unless a line failed
AfterLines(ctx1) == IF ctx1.err # "" THEN ctx1 ELSE FinishBlock(ctx1)

DSLParser_parse(d, c, b) ==
    LET begin == BeginBlock(d, Block(b.output)) IN
    ParseOutcome(AfterLines(ParseLines(Ctx(begin.dsl, c, begin.block, "", <<>>),
                                       b.input \o <<Ln(0, <<>>)>>)),
                 b)

\* the blank line and the block Clinic.parse prints for a buffer that is
\* not empty at the end of the file: block.input = "dump " + name + "\n"
FlushBlock_twice(name, output) ==
    <<TextLine(Ln(0, <<>>))>>
    \o print_block(FileBlock("clinic", <<Ln(0, <<"dump">> \o Words(name))>>, output, FALSE))
    \o print_block(FileBlock("clinic", <<Ln(0, <<"dump">> \o Words(name))>>, output, FALSE))

FlushBlock(name, output) ==
    <<TextLine(Ln(0, <<>>))>>
    \o print_block(FileBlock("clinic", <<Ln(0, <<"dump">> \o Words(name))>>, output, FALSE))

\* warn("Destination buffer " + repr(name) + " not empty at end of file,
\* emptying.")
WarningNotEmpty(name) ==
    [text |-> "Destination buffer not empty at end of file, emptying.", name |-> name]

WarnNotEmpty(c, name) == [c EXCEPT !.warnings = Append(@, WarningNotEmpty(name))]

\* list(BlockParser(text)) with verification on: "" or the failure
RECURSIVE VerifyBlocks(_)
VerifyFrom(nb) == IF nb.fail # "" THEN nb.fail ELSE VerifyBlocks(nb.rest)

VerifyBlocks(lines) ==
    IF lines = <<>> THEN "" ELSE VerifyFrom(BlockParser_next(lines, TRUE))

\* the check of a destination file, looking at its first block only
SidecarBlocksCheck_first(fail, blocks) ==
    IF fail # "" THEN fail
    ELSE IF blocks[1].input # <<Ln(0, <<"preserve">>)>>
    THEN "Modified destination file; not overwriting!"
    ELSE ""

\* the check Clinic.parse makes of a destination file it is about to
\* overwrite: "" or the failure
SidecarBlocksCheck(fail, blocks) ==
    IF fail # "" THEN fail
    ELSE IF Len(blocks) # 1 \/ blocks[1].input # <<Ln(0, <<"preserve">>)>>
    THEN "Modified destination file; not overwriting!"
    ELSE ""

\* the file of preset 'file'; a destination made with another file name
\* writes the other file of the file system
SidecarName == "{dirname}/clinic/{basename}.h"

\* open(destination.filename): [exists, text]
OpenFile(fl, filename) ==
    IF filename = SidecarName THEN [exists |-> fl.sidecar_exists, text |-> fl.sidecar]
    ELSE [exists |-> fl.other_exists, text |-> fl.other]

\* libclinic.write_file(destination.filename, text)
write_file(fl, filename, text) ==
    IF filename = SidecarName THEN [fl EXCEPT !.sidecar_exists = TRUE, !.sidecar = text]
    ELSE [fl EXCEPT !.other_exists = TRUE, !.other = text]

SidecarCheck(fl, verify, filename) ==
    LET f == OpenFile(fl, filename) IN
    IF ~verify \/ ~f.exists THEN ""
    ELSE SidecarBlocksCheck(VerifyBlocks(f.text), BlocksOf(f.text))

\* the loop of Clinic.parse over self.destinations, from destination i on:
\* [clinic, printer, files, err]
RECURSIVE FlushDestinations(_, _, _, _, _)

\* a destination of type 'file': the check, then the file is written
FlushToFile(c1, printer, fl, verify, i, output, check) ==
    IF check # ""
    THEN [clinic |-> c1, printer |-> printer, files |-> fl, err |-> check]
    ELSE FlushDestinations(
             c1, printer,
             write_file(fl, c1.destinations[i].filename,
                        print_block(FileBlock(
                            "clinic", <<Ln(0, <<"preserve">>)>>, output, FALSE))),
             verify, i + 1)

FlushDestinations(c, printer, fl, verify, i) ==
    IF i > Len(c.destinations) THEN [clinic |-> c, printer |-> printer, files |-> fl, err |-> ""]
    ELSE LET dst == c.destinations[i]
             output == BufferSeries_dump(dst.buffers)
             c1 == [c EXCEPT !.destinations[i].buffers = BufferSeries_clear(@)]
         IN  IF dst.type = "suppress" THEN FlushDestinations(c, printer, fl, verify, i + 1)
             ELSE IF output = <<>> THEN FlushDestinations(c1, printer, fl, verify, i + 1)
             ELSE IF dst.type = "buffer"
             THEN FlushDestinations(WarnNotEmpty(c1, dst.name),
                                    printer \o FlushBlock(dst.name, output),
                                    fl, verify, i + 1)
             ELSE FlushToFile(c1, printer, fl, verify, i, output,
                              SidecarCheck(fl, verify, dst.filename))

\* run_clinic: verify=not ns.force, with --force taken as given every time
verify_never(force) == FALSE

\* run_clinic: verify=not ns.force
verify_option(force) == ~force

\* ------------------------------------------------------------------------
\* Specification of parse_file over small host files
\* ------------------------------------------------------------------------
\* most blocks of a host file before the first run, and most runs on it
MaxBlocks == 3
MaxRuns == 3

SourceBlock(lines) ==
    <<StartLine>> \o [i \in 1..Len(lines) |-> TextLine(lines[i])] \o <<StopLine>>

Prose == <<TextLine(Ln(0, <<"code">>))>>
OldText == <<Piece("old", [args |-> <<>>], "", "")>>
EditedText == <<Piece("edit", [args |-> <<>>], "", "")>>

\* the blocks a host file is made of: functions, routing directives, and a
\* 'preserve' block that an earlier run left with its output and checksum
SourceBlocks ==
    {SourceBlock(<<Ln(0, <<"f">>), Ln(4, <<"a", ":", "int">>)>>),
     SourceBlock(<<Ln(0, <<"g">>)>>),
     SourceBlock(<<Ln(0, <<"output", "everything", "buffer">>)>>),
     SourceBlock(<<Ln(0, <<"destination", "a b", "new", "buffer">>),
                   Ln(0, <<"output", "everything", "a b">>)>>),
     SourceBlock(<<Ln(0, <<"output", "preset", "block">>)>>),
     SourceBlock(<<Ln(0, <<"dump", "buffer">>)>>),
     SourceBlock(<<Ln(0, <<"printout", "hello">>)>>),
     print_block(FileBlock("clinic", <<Ln(0, <<"preserve">>)>>, OldText, FALSE))}

HostFiles ==
    {Prose} \cup
    {Flatten(bs) \o Prose : bs \in UNION {[1..n -> SourceBlocks] : n \in 1..MaxBlocks}}

InitFile ==
    /\ pg = PermuteIdle
    /\ dsl = DSLParser
    /\ clinic = Clinic(TRUE, FALSE)
    /\ block = Block(<<>>)
    /\ err = ""
    /\ line = NoLine
    /\ hist = <<>>
    /\ pc = "idle"
    /\ \E h \in HostFiles : files = [NoFiles EXCEPT !.host = h]
    /\ run = NoRun

\* parse_file up to the call of Clinic.parse; a file without a start marker
\* is left alone
RunClinic ==
    /\ pc \in {"idle", "written", "failed"}
    /\ run.n < MaxRuns
    /\ \E force \in BOOLEAN :
          LET r == [run EXCEPT !.n = @ + 1, !.force = force, !.raw = files.host,
                               !.rest = files.host, !.printer = <<>>, !.cooked = <<>>,
                               !.files0 = files, !.generated = files.pristine]
          IN  IF FindLine(files.host, {"start"}, 1) = 0
              THEN /\ run' = [r EXCEPT !.rest = <<>>, !.generated = FALSE]
                   /\ pc' = "idle"
                   /\ UNCHANGED <<dsl, clinic, block, err>>
              ELSE /\ run' = r
                   /\ pc' = "blocks"
                   /\ dsl' = DSLParser
                   /\ clinic' = Clinic(verify_option(force), FALSE)
                   /\ block' = Block(<<>>)
                   /\ err' = ""
    /\ UNCHANGED <<pg, line, hist, files>>

\* one turn of the loop of Clinic.parse over the blocks
NextBlock ==
    /\ pc = "blocks"
    /\ run.rest # <<>>
    /\ \E nb \in {BlockParser_next(run.rest, clinic.verify)} :
       \E r \in {IF nb.fail = "" /\ nb.block.dsl_name # ""
                 THEN DSLParser_parse(dsl, clinic, nb.block)
                 ELSE ParseOutcome(Ctx(dsl, clinic, block, err, hist), nb.block)} :
       \E out \in {IF nb.fail = "" /\ nb.block.dsl_name # ""
                   THEN FileBlock("clinic", nb.block.input, r.ctx.block.output, r.absent)
                   ELSE nb.block} :
       \E e \in {IF nb.fail # "" THEN nb.fail
                 ELSE IF r.ctx.err # "" THEN r.ctx.err
                 ELSE IF ~print_block_asserts(out) THEN "AssertionError"
                 ELSE ""} :
           /\ err' = e
           /\ pc' = IF e # "" THEN "failed" ELSE "blocks"
           /\ dsl' = r.ctx.dsl
           /\ clinic' = r.ctx.clinic
           /\ block' = r.ctx.block
           /\ run' = IF e # "" THEN run
                     ELSE [run EXCEPT !.rest = nb.rest, !.printer = @ \o print_block(out)]
    /\ UNCHANGED <<pg, line, hist, files>>

\* the rest of Clinic.parse: the destinations that are not empty
Flush ==
    /\ pc = "blocks"
    /\ run.rest = <<>>
    /\ \E r \in {FlushDestinations(clinic, run.printer, files, clinic.verify, 1)} :
           /\ clinic' = r.clinic
           /\ files' = r.files
           /\ err' = r.err
           /\ pc' = IF r.err # "" THEN "failed" ELSE "parsed"
           /\ run' = IF r.err # "" THEN run ELSE [run EXCEPT !.cooked = r.printer]
    /\ UNCHANGED <<pg, dsl, block, line, hist>>

\* parse_file: libclinic.write_file(output, cooked)
WriteFile ==
    /\ pc = "parsed"
    /\ files' = [files EXCEPT !.host = run.cooked, !.pristine = TRUE]
    /\ pc' = "written"
    /\ UNCHANGED <<pg, dsl, clinic, block, err, line, hist, run>>

\* the stop markers of the blocks that have a checksum line
OutputRegions(lines) ==
    {i \in 1..Len(lines) :
        /\ lines[i].t = "stop"
        /\ FindLine(lines, {"checksum", "start"}, i + 1) # 0
        /\ lines[FindLine(lines, {"checksum", "start"}, i + 1)].t = "checksum"}

\* a hand edit of the output region below stop marker i: a line is put in
\* at its top, or its first line is taken out
Edits(lines, i) ==
    {SubSeq(lines, 1, i) \o <<TextLine(EditedText[1])>> \o SubSeq(lines, i + 1, Len(lines))}
    \cup (IF lines[i + 1].t = "text"
          THEN {SubSeq(lines, 1, i) \o SubSeq(lines, i + 2, Len(lines))}
          ELSE {})

\* somebody edits the generated output of a block of the host file
Tamper ==
    /\ pc \in {"written", "failed"}
    /\ files.pristine
    /\ \E i \in OutputRegions(files.host) : \E h \in Edits(files.host, i) :
          files' = [files EXCEPT !.host = h, !.pristine = FALSE]
    /\ pc' = "idle"
    /\ UNCHANGED <<pg, dsl, clinic, block, err, line, hist, run>>

\* the hand edits of a sidecar file: of the output region of a block, or
\* text of one's own put after or before what Clinic wrote
SidecarEdits(lines) ==
    UNION {Edits(lines, i) : i \in OutputRegions(lines)}
    \cup {lines \o Prose, Prose \o lines}

\* somebody edits the sidecar file
TamperSidecar ==
    /\ pc \in {"written", "failed"}
    /\ files.pristine
    /\ files.sidecar_exists
    /\ \E h \in SidecarEdits(files.sidecar) :
          files' = [files EXCEPT !.sidecar = h, !.pristine = FALSE]
    /\ pc' = "idle"
    /\ UNCHANGED <<pg, dsl, clinic, block, err, line, hist, run>>

NextFile == RunClinic \/ NextBlock \/ Flush \/ WriteFile \/ Tamper \/ TamperSidecar

SpecFile == InitFile /\ [][NextFile]_vars

\* ------------------------------------------------------------------------
\* Properties of the block I/O engine, checked under SpecFile
\* ------------------------------------------------------------------------
\* some checksum line of the file does not cover the output region above it
Mismatch(lines) ==
    \E j \in 1..Len(lines) :
        /\ lines[j].t = "checksum"
        /\ \E i \in 1..(j - 1) :
              /\ lines[i].t = "stop"
              /\ \A k \in (i + 1)..(j - 1) : lines[k].t = "text"
              /\ lines[j].v[1] # compute_checksum(TextOf(SubSeq(lines, i + 1, j - 1)))

\* the run is over: Clinic.parse returned or raised
RunOver == pc \in {"parsed", "written", "failed"}

\* C1: when the host file is the output of a Clinic run (left as that run
\* wrote it, sidecar included), running again succeeds and Clinic.parse
\* returns the very text it read.
C1_RoundTrip ==
    (RunOver /\ run.generated) => (err = "" /\ run.cooked = run.raw)

\* the blocks of the file that are not marked 'preserve' hold no edited text
NoEditLeft(lines) ==
    \A k \in 1..Len(BlocksOf(lines)) :
        LET b == BlocksOf(lines)[k]
        IN  (b.dsl_name # "" /\ \E i \in 1..Len(b.output) : b.output[i] = EditedText[1])
                => \E i \in 1..Len(b.input) : b.input[i] = Ln(0, <<"preserve">>)

\* C2: when the output region of a block of the host file differs from what
\* its checksum line records, a run without --force ends with the checksum
\* error and writes nothing, neither host file nor sidecar; a run with
\* --force never raises the checksum error, and the file it writes has every
\* checksum line covering its output, with the edit gone from the blocks
\* whose output the run generates (a 'preserve' block keeps its text).
C2_ChecksumEnforced ==
    (RunOver /\ Mismatch(run.raw)) =>
        IF ~run.force
        THEN pc = "failed" /\ err = "Checksum mismatch" /\ files = run.files0
        ELSE /\ err # "Checksum mismatch"
             /\ pc = "written" => (~Mismatch(files.host) /\ NoEditLeft(files.host))

\* an edited file was refused by a run without --force
C2_Witness ==
    /\ pc = "failed"
    /\ ~run.force
    /\ Mismatch(run.raw)
    /\ err = "Checksum mismatch"
    /\ files = run.files0

\* the text held, at the end of the parse, by the destinations of type 'file'
FileOutputs ==
    {BufferSeries_dump(clinic.destinations[i].buffers) :
        i \in {k \in 1..Len(clinic.destinations) : clinic.destinations[k].type = "file"}}
    \ {<<>>}

\* Clinic.parse is about to flush its destinations, and one of type 'file'
\* has text for the sidecar file
SidecarDue == pc = "blocks" /\ run.rest = <<>> /\ FileOutputs # {}

PreserveInput == <<Ln(0, <<"preserve">>)>>

\* the file is one 'preserve' block, with a good checksum, holding the text
\* of a destination of type 'file'
SidecarWritten(lines) ==
    /\ VerifyBlocks(lines) = ""
    /\ \E out \in FileOutputs :
          BlocksOf(lines) = <<FileBlock("clinic", PreserveInput, out, FALSE)>>

\* the run stops with an error and leaves the files as they were
SidecarRefused == pc' = "failed" /\ err' # "" /\ files' = files

\* the file starts with a block whose input is 'preserve'
StartsWithPreserve(lines) ==
    lines # <<>> /\ BlocksOf(lines)[1].input = PreserveInput

\* the whole file is one block whose input is 'preserve', and its checksum
\* line covers its output
OnlyPreserve(lines) ==
    /\ Len(BlocksOf(lines)) = 1
    /\ BlocksOf(lines)[1].input = PreserveInput
    /\ ~Mismatch(lines)

Leaking(c) ==
    SelectSeq(c.destinations,
              LAMBDA d : d.type = "buffer" /\ BufferSeries_dump(d.buffers) # <<>>)

\* the Clinic blocks among the lines a run put after the lines it had
\* printed for the blocks of the file
TrailingBlocks(cooked, printer) ==
    SelectSeq(BlocksOf(SubSeq(cooked, Len(printer) + 1, Len(cooked))),
              LAMBDA b : b.dsl_name # "")

\* Clinic.parse returns without error
ParseReturns == pc = "blocks" /\ run.rest = <<>> /\ pc' = "parsed"

\* C20: when Clinic.parse returns without error, every destination of type
\* 'buffer' is empty; the text it returns is what it printed for the blocks
\* of the file and then, for each buffer that still held text, one block
\* whose input is 'dump <name>' and whose output is that text, so that the
\* text is there once, in a trailing block; and one warning was issued for
\* each of these buffers.
C20_LeakingBuffersFlushed ==
    [][ParseReturns =>
          /\ \A i \in 1..Len(clinic'.destinations) :
                clinic'.destinations[i].type = "buffer"
                    => BufferSeries_dump(clinic'.destinations[i].buffers) = <<>>
          /\ SubSeq(run'.cooked, 1, Len(run.printer)) = run.printer
          /\ TrailingBlocks(run'.cooked, run.printer)
                = [k \in 1..Len(Leaking(clinic)) |->
                     FileBlock("clinic",
                               <<Ln(0, <<"dump">> \o Words(Leaking(clinic)[k].name))>>,
                               BufferSeries_dump(Leaking(clinic)[k].buffers),
                               FALSE)]
          /\ clinic'.warnings
                = clinic.warnings
                  \o [k \in 1..Len(Leaking(clinic)) |->
                        WarningNotEmpty(Leaking(clinic)[k].name)]]_vars

\* a run returned a file that ends with the block 'dump buffer', after the
\* warning that the buffer was not empty
C20_Witness ==
    /\ pc = "parsed"
    /\ clinic.warnings = <<WarningNotEmpty("buffer")>>
    /\ \E k \in 1..Len(BlocksOf(run.cooked)) :
          /\ BlocksOf(run.cooked)[k].input = <<Ln(0, <<"dump", "buffer">>)>>
          /\ BlocksOf(run.cooked)[k].output # <<>>
          /\ k = Len(BlocksOf(run.cooked))
    /\ \A i \in 1..Len(clinic.destinations) :
          BufferSeries_dump(clinic.destinations[i].buffers) = <<>>

\* ------------------------------------------------------------------------
\* Specification of the code generator: one function block, declared line
\* by line in a file that has a module m and a class m.C, then rendered
\* with the limited C API off or on
\* ------------------------------------------------------------------------
\* most lines of the parameter section of a block
MaxGenLines == 4

\* the block before the function's: module m, class m.C
ScopeBlock ==
    FileBlock("clinic",
              <<Ln(0, <<"module", "m">>), Ln(0, <<"class", "m.C", "T", "&T">>)>>,
              <<>>, FALSE)

GenDecorators == {<<"@classmethod">>, <<"@getter">>, <<"@setter">>, <<"@critical_section">>}

GenHeaders ==
    {<<"m.f">>, <<"m.f", "->", "int">>, <<"m.C.f">>, <<"m.C.__new__">>, <<"m.C.__init__">>}

\* the lines that declare the next of ParameterNames
GenDeclarations(name) ==
    {<<name, ":", "int">>, <<name, ":", "object">>, <<name, ":", "object", "=", "None">>}

GenParameterLines(n) ==
    {<<"*">>, <<"/">>, <<"[">>, <<"]">>,
     <<"*args", ":", "object">>, <<"cls", ":", "defining_class">>}
    \cup (IF n < Len(ParameterNames) THEN GenDeclarations(ParameterNames[n + 1]) ELSE {})

\* the parameters of ps that carry one of ParameterNames
DeclaredNames(ps) ==
    Cardinality({i \in 1..Len(ps) :
                    \E k \in 1..Len(ParameterNames) : ps[i].name = ParameterNames[k]})

GenLinesToFeed ==
    IF dsl.state = "dsl_start"
    THEN {Ln(0, t) : t \in GenHeaders \cup (IF dsl.kind = "CALLABLE" /\ ~dsl.critical_section
                                              THEN GenDecorators ELSE {})}
    ELSE IF dsl.function # 0 /\ dsl.state \in {"parameters_start", "parameter"}
            /\ Len(hist) < MaxGenLines
    THEN {Ln(4, t) : t \in GenParameterLines(DeclaredNames(clinic.functions[dsl.function].parameters))}
    ELSE {}

InitGen ==
    /\ pg = PermuteIdle
    /\ files = NoFiles
    /\ run = NoRun
    /\ \E limited_capi \in BOOLEAN :
          \E r \in {DSLParser_parse(DSLParser, Clinic(TRUE, limited_capi), ScopeBlock)} :
              /\ dsl = r.ctx.dsl
              /\ clinic = r.ctx.clinic
    /\ block = Block(<<>>)
    /\ err = ""
    /\ line = NoLine
    /\ hist = <<>>
    /\ pc = "idle"

\* one turn of the loop over the lines of the function's block
GenNextLine ==
    /\ pc = "lines"
    /\ err = ""
    /\ \E ln \in GenLinesToFeed :
          \E r \in {ParseLine(Ctx(dsl, clinic, block, err, hist), ln)} :
              /\ line' = LineClass(ln)
              /\ dsl' = r.dsl
              /\ clinic' = r.clinic
              /\ block' = r.block
              /\ err' = r.err
              /\ hist' = r.hist
    /\ UNCHANGED <<pg, pc, files, run>>

NextGen == ParseBegin \/ GenNextLine \/ ParseEnd

SpecGen == InitGen /\ [][NextGen]_vars

\* the function of the block, once declared
GenFunction == clinic.functions[dsl.function]

\* what output_templates chooses for the function of the block
GenTemplates == output_templates(GenFunction, clinic.limited_capi)

\* the block was parsed and rendered without an exception
Generated == pc = "done" /\ err = "" /\ dsl.function # 0

\* the text of all destinations and of the block's output
RECURSIVE AllDestinationText(_, _)
AllDestinationText(c, i) ==
    IF i > Len(c.destinations) THEN <<>>
    ELSE BufferSeries_dump(c.destinations[i].buffers) \o AllDestinationText(c, i + 1)

\* fragment frag of the block's function was written somewhere
Emitted(frag) ==
    \E i \in 1..Len(AllDestinationText(clinic, 1) \o block.output) :
        /\ (AllDestinationText(clinic, 1) \o block.output)[i].frag = frag
        /\ (AllDestinationText(clinic, 1) \o block.output)[i].of = GenFunction

\* the parameters besides the receiver
Selfless == Tail(GenFunction.parameters)

\* exactly one parameter besides the receiver, positional-only and without
\* a default, in a function that is no constructor
SingleRequiredPositional ==
    /\ Len(Selfless) = 1
    /\ is_positional_only(Selfless[1])
    /\ Selfless[1].default = "unspecified"
    /\ Selfless[1].conv # "defining_class"
    /\ ~new_or_init(GenFunction.kind)

\* C15: a rendered function gets the flag METH_O exactly when it has one
\* parameter besides the receiver, positional-only, without default and no
\* defining class, and is no constructor; when that parameter's converter
\* is the object converter with format unit O, the return type is the
\* default and there is no critical section, neither a parser prototype
\* nor a parser definition is written.
C15_MethO ==
    Generated =>
        /\ (GenTemplates.flags = <<"METH_O">>) <=> SingleRequiredPositional
        /\ (/\ SingleRequiredPositional
            /\ Selfless[1].conv = "object"
            /\ GenFunction.return_converter = "CReturnConverter"
            /\ ~GenFunction.critical_section)
           => ~Emitted("parser_prototype") /\ ~Emitted("parser_definition")

\* scenario S1: m.f with x: object before a '/', rendered
C15_Witness ==
    /\ Generated
    /\ SingleRequiredPositional
    /\ Selfless[1].conv = "object"
    /\ GenFunction.full_name = "m.f"
    /\ GenFunction.return_converter = "CReturnConverter"
    /\ ~GenFunction.critical_section
    /\ Emitted("impl_definition")

\* some parameter of the block's function is in an optional group
HasGroup == \E i \in 1..Len(Selfless) : Selfless[i].group # 0

\* C16: every rendered function with an optional group has the flag
\* METH_VARARGS and a parser built around the switch on the number of
\* arguments, with one case per tuple of permute_optional_groups.
C16_GroupsForceSwitch ==
    (Generated /\ HasGroup) =>
        /\ GenTemplates.flags = <<"METH_VARARGS">>
        /\ GenTemplates.parser_definition = "option_group_parsing"

\* the block's function reached render_function, and nothing but
\* output_templates stopped it
TemplatesSelected ==
    pc = "done" /\ dsl.function # 0 /\ err = GenTemplates.raise

\* C17: for a function with a defining-class parameter output_templates
\* raises no exception, the flags begin with METH_METHOD and the parser
\* prototype is the defining-class prototype.
C17_DefiningClassMethod ==
    (TemplatesSelected /\ requires_defining_class(GenFunction)) =>
        /\ GenTemplates.raise = ""
        /\ GenTemplates.flags # <<>> /\ GenTemplates.flags[1] = "METH_METHOD"
        /\ GenTemplates.parser_prototype = "PARSER_PROTOTYPE_DEF_CLASS"

\* the limited C API is asked for and cannot parse the block's function
LimitedForbidden ==
    clinic.limited_capi /\ LimitedForbids(TemplateParameters(GenFunction))

\* C18 as stated: when the limited C API is asked for and forbids the
\* shape, a warning names the function, the flags are
\* METH_VARARGS|METH_KEYWORDS and the parser calls PyArg_ParseTupleAndKeywords.
C18_DowngradeToTupleAndKeywords ==
    (TemplatesSelected /\ LimitedForbidden) =>
        /\ \E i \in 1..Len(clinic.warnings) : clinic.warnings[i] = WarningLimited(GenFunction)
        /\ GenTemplates.flags = <<"METH_VARARGS", "METH_KEYWORDS">>
        /\ GenTemplates.parser_definition = "PyArg_ParseTupleAndKeywords"

\* C18, amended: when the limited C API is asked for and forbids the
\* shape, a warning names the function, and the flags, the parser
\* prototype and the parsing call are those chosen with the limited C API off.
C18_DowngradeToUnlimited ==
    (TemplatesSelected /\ LimitedForbidden) =>
        /\ \E i \in 1..Len(clinic.warnings) : clinic.warnings[i] = WarningLimited(GenFunction)
        /\ GenTemplates.flags = output_templates(GenFunction, FALSE).flags
        /\ GenTemplates.parser_prototype = output_templates(GenFunction, FALSE).parser_prototype
        /\ GenTemplates.parser_definition = output_templates(GenFunction, FALSE).parser_definition
        /\ GenTemplates.parser_definition # "PyArg_ParseTupleAndKeywords"

\* a function with an optional parameter and a required keyword-only one
\* was rendered with the limited C API asked for
C18_Witness ==
    /\ Generated
    /\ LimitedForbidden
    /\ Shape(TemplateParameters(GenFunction)).pseudo_args = 0
    /\ GenTemplates.warn

\* ------------------------------------------------------------------------
\* Specification of the function header: a file with module m, class m.C
\* and one function in it (the donor), then a block that declares a second
\* function, by cloning or with parameter lines of its own
\* ------------------------------------------------------------------------
\* most lines after the header of the second block
MaxCloneLines == 3

\* the lines that declare the donor, after those of ScopeBlock
DonorLines ==
    {<<Ln(0, <<"m.C.f">>), Ln(4, <<"a", ":", "int">>)>>,
     <<Ln(0, <<"m.C.f", "->", "int">>), Ln(4, <<"cls", ":", "defining_class">>)>>,
     <<Ln(0, <<"@classmethod">>), Ln(0, <<"m.C.f">>), Ln(4, <<"a", ":", "int">>)>>,
     <<Ln(0, <<"@staticmethod">>), Ln(0, <<"m.C.f">>)>>,
     <<Ln(0, <<"@coexist">>), Ln(0, <<"m.C.f">>), Ln(4, <<"a", ":", "object">>)>>,
     <<Ln(0, <<"@classmethod">>), Ln(0, <<"m.C.__new__">>), Ln(4, <<"a", ":", "int">>)>>,
     <<Ln(0, <<"m.C.__init__">>), Ln(4, <<"a", ":", "int">>)>>}

DonorBlock(lines) == FileBlock("clinic", ScopeBlock.input \o lines, <<>>, FALSE)

CloneDecorators == {<<"@classmethod">>, <<"@staticmethod">>, <<"@coexist">>}

\* the headers of the second block: clones named g, and a function n
CloneHeaders ==
    {<<"m.C.g", "=", "m.C.f">>, <<"m.C.g", "=", "m.C.__new__">>,
     <<"m.C.g", "=", "m.C.__init__">>, <<"m.g", "=", "m.C.f">>, <<"m.n">>}

CloneParameterLines ==
    {<<"self", ":", "self">>, <<"self", "as", "s", ":", "int">>,
     <<"module", "as", "s", ":", "int">>, <<"cls", ":", "defining_class">>,
     <<"a", ":", "int">>, <<"/">>, <<"[">>}

CloneLinesToFeed ==
    IF dsl.state = "dsl_start"
    THEN {Ln(0, t) : t \in CloneHeaders \cup (IF dsl.kind = "CALLABLE" /\ ~dsl.coexist
                                                THEN CloneDecorators ELSE {})}
    ELSE IF dsl.function # 0
            /\ Len(hist) + Len(clinic.functions[dsl.function].docstring) < MaxCloneLines
    THEN {Ln(4, t) : t \in CloneParameterLines}
    ELSE {}

InitClone ==
    /\ pg = PermuteIdle
    /\ files = NoFiles
    /\ run = NoRun
    /\ \E lines \in DonorLines :
          \E r \in {DSLParser_parse(DSLParser, Clinic(TRUE, FALSE), DonorBlock(lines))} :
              /\ r.ctx.err = ""
              /\ dsl = r.ctx.dsl
              /\ clinic = r.ctx.clinic
    /\ block = Block(<<>>)
    /\ err = ""
    /\ line = NoLine
    /\ hist = <<>>
    /\ pc = "idle"

\* one turn of the loop over the lines of the second block
CloneNextLine ==
    /\ pc = "lines"
    /\ err = ""
    /\ \E ln \in CloneLinesToFeed :
          \E r \in {ParseLine(Ctx(dsl, clinic, block, err, hist), ln)} :
              /\ line' = LineClass(ln)
              /\ dsl' = r.dsl
              /\ clinic' = r.clinic
              /\ block' = r.block
              /\ err' = r.err
              /\ hist' = r.hist
    /\ UNCHANGED <<pg, pc, files, run>>

NextClone == ParseBegin \/ CloneNextLine \/ ParseEnd

SpecClone == InitClone /\ [][NextClone]_vars

\* the donor: the function of the first block
Donor == clinic.functions[1]

\* the second block declared its function
HeaderDone == pc \in {"lines", "done"} /\ dsl.function # 0

\* C13: once the header line is processed, and after every parameter line
\* processed without error, the function has exactly one parameter whose
\* converter is the self converter; it is the first and positional-only.
C13_OneReceiverFirst ==
    (HeaderDone /\ (pc = "lines" => err = "")) =>
        /\ GenFunction.parameters # <<>>
        /\ GenFunction.parameters[1].conv = "self"
        /\ is_positional_only(GenFunction.parameters[1])
        /\ \A i \in 2..Len(GenFunction.parameters) : GenFunction.parameters[i].conv # "self"

\* an explicit self, and a parameter with the receiver's name, were declared
C13_Witness ==
    /\ HeaderDone /\ err = "" /\ GenFunction.name = "n"
    /\ \E i \in 1..Len(hist) : hist[i].key = "self"
    /\ Len(GenFunction.parameters) = 2
    /\ GenFunction.parameters[2].name = GenFunction.parameters[1].name

\* the second block declared its function g by cloning
IsClone == HeaderDone /\ GenFunction.name = "g"

\* the clone has the kind and the coexist flag of the donor
SameKind == Donor.kind = dsl.kind /\ Donor.coexist = dsl.coexist

MaxRouteBlocks == 5

\* the inputs of the blocks
RouteDirectives ==
    {<<"output", "push">>, <<"output", "pop">>,
     <<"output", "preset", "buffer">>,
     <<"output", "everything", "suppress">>,
     <<"output", "docstring_definition", "d">>,
     <<"destination", "d", "new", "buffer">>,
     <<"dump", "suppress">>, <<"dump", "buffer">>}

\* two functions that share the C basename f
RouteFunctions == {<<Ln(0, <<"f">>)>>, <<Ln(0, <<"g", "as", "f">>)>>}

\* the text before the first block: nothing, or a line that opens a
\* preprocessor condition
RouteConditions == {<<>>, <<"defined(X)">>}
CppLine(cond) == TextLine(Ln(0, <<"#if">> \o cond))

RouteBlocks == {<<Ln(0, t)>> : t \in RouteDirectives} \cup RouteFunctions

\* the text of the destinations whose type is in types
RECURSIVE TextOfTypes(_, _, _)
TextOfTypes(c, types, i) ==
    IF i > Len(c.destinations) THEN <<>>
    ELSE (IF c.destinations[i].type \in types
          THEN BufferSeries_dump(c.destinations[i].buffers) ELSE <<>>)
         \o TextOfTypes(c, types, i + 1)

\* the pieces of a text
PiecesOf(text) == {text[i] : i \in 1..Len(text)}

\* the fragments render_function appends for function f, in the order of
\* its loop over clinic.destination_buffers, each with the buffer it is
\* appended to
AppendsOf(c, f, t) ==
    Flatten([i \in 1..Len(FragmentOrder) |->
                [k \in 1..Len(FragmentText(c, f, t, FragmentOrder[i])) |->
                    [piece |-> FragmentText(c, f, t, FragmentOrder[i])[k],
                     ref |-> c.destination_buffers[FragmentOrder[i]]]]])

\* what the model remembers of a block: its input, whether it was parsed
\* without an error, the routing and the depth of the stack after it, the
\* pieces it added to the destinations of type 'suppress' and elsewhere,
\* and what its function appended, in order
\* (c the Clinic object before the block, ctx2 the outcome of the parse)
RouteNote(c, ctx2, b) ==
    [input |-> b,
     appends |-> IF b \in RouteFunctions /\ ctx2.err = ""
                 THEN AppendsOf(c, ctx2.clinic.functions[Len(ctx2.clinic.functions)],
                                CppTemplates(c, ctx2.clinic.functions[Len(ctx2.clinic.functions)],
                                             output_templates(
                                                 ctx2.clinic.functions[Len(ctx2.clinic.functions)],
                                                 c.limited_capi)))
                 ELSE <<>>,
     ok |-> ctx2.err = "",
     fd |-> ctx2.clinic.destination_buffers,
     depth |-> Len(ctx2.clinic.destination_buffers_stack),
     suppressed |-> PiecesOf(TextOfTypes(ctx2.clinic, {"suppress"}, 1))
                        \ PiecesOf(TextOfTypes(c, {"suppress"}, 1)),
     kept |-> IF b \in RouteFunctions
              THEN PiecesOf(ctx2.block.output)
                   \cup (PiecesOf(TextOfTypes(ctx2.clinic, {"buffer", "file"}, 1))
                         \ PiecesOf(TextOfTypes(c, {"buffer", "file"}, 1)))
              ELSE {}]

InitRoute ==
    /\ pg = PermuteIdle
    /\ files = NoFiles
    /\ \E cond \in RouteConditions :
          /\ clinic = [Clinic(TRUE, FALSE) EXCEPT !.cpp = cond]
          /\ run = IF cond = <<>> THEN [NoRun EXCEPT !.n = 1]
                   ELSE [NoRun EXCEPT !.n = 1, !.raw = <<CppLine(cond)>>,
                                      !.printer = <<CppLine(cond)>>]
    /\ dsl = DSLParser
    /\ block = Block(<<>>)
    /\ err = ""
    /\ line = NoLine
    /\ hist = <<>>
    /\ pc = "blocks"

\* one turn of the loop of Clinic.parse over the blocks, the block being
\* the next of the file
RouteBlock ==
    /\ pc = "blocks"
    /\ Len(hist) < MaxRouteBlocks
    /\ \E b \in RouteBlocks :
       \E r \in {DSLParser_parse(dsl, clinic, FileBlock("clinic", b, <<>>, TRUE))} :
           /\ err' = r.ctx.err
           /\ pc' = IF r.ctx.err # "" THEN "failed" ELSE "blocks"
           /\ dsl' = r.ctx.dsl
           /\ clinic' = r.ctx.clinic
           /\ block' = r.ctx.block
           /\ run' = IF r.ctx.err # "" THEN run
                     ELSE [run EXCEPT !.raw = @ \o SourceBlock(b),
                                      !.printer = @ \o print_block(FileBlock(
                                          "clinic", b, r.ctx.block.output, r.absent))]
           /\ hist' = Append(hist, RouteNote(clinic, r.ctx, b))
    /\ UNCHANGED <<pg, line, files>>

NextRoute == RouteBlock \/ Flush \/ WriteFile

SpecRoute == InitRoute /\ [][NextRoute]_vars

\* ------------------------------------------------------------------------
\* Properties of the routing of the fragments, checked under SpecRoute
\* ------------------------------------------------------------------------
\* the pieces some block added to a destination of type 'suppress', and the
\* pieces some block added to its own output or to another destination
SuppressedPieces == UNION {hist[i].suppressed : i \in 1..Len(hist)}
KeptPieces == UNION {hist[i].kept : i \in 1..Len(hist)}

\* the pieces of generated text in the lines of a file
RECURSIVE FilePieces(_)
FilePieces(lines) ==
    IF lines = <<>> THEN {}
    ELSE (IF Head(lines).t = "text" THEN {Head(lines).v[1]} ELSE {})
         \cup FilePieces(Tail(lines))

\* C21: text that was routed to a destination of type 'suppress', and to no
\* other destination, is neither in the text Clinic.parse returns for the
\* host file nor in the sidecar file.
C21_SuppressDiscards ==
    \A p \in SuppressedPieces \ KeptPieces :
        /\ p \notin FilePieces(run.printer)
        /\ p \notin FilePieces(run.cooked)
        /\ p \notin FilePieces(files.host)
        /\ p \notin FilePieces(files.sidecar)

\* the block's input is the one directive
IsDirective(i, toks) == hist[i].input = <<Ln(0, toks)>>
IsPush(i) == IsDirective(i, <<"output", "push">>)
IsPop(i) == IsDirective(i, <<"output", "pop">>)

\* pushes less pops among blocks i..j
Net(i, j) ==
    Cardinality({m \in i..j : IsPush(m)}) - Cardinality({m \in i..j : IsPop(m)})

\* block j is the push that the pop of block k matches: the pushes and pops
\* between them are balanced and nested
Matches(j, k) ==
    /\ j < k
    /\ IsPush(j)
    /\ IsPop(k)
    /\ Net(j + 1, k - 1) = 0
    /\ \A m \in (j + 1)..(k - 1) : Net(j + 1, m) >= 0

\* the routing and the depth of the stack when block i begins
RoutingBefore(i) ==
    IF i = 1 THEN Clinic(TRUE, FALSE).destination_buffers ELSE hist[i - 1].fd
DepthBefore(i) == IF i = 1 THEN 0 ELSE hist[i - 1].depth

\* C22: an 'output pop' succeeds when an 'output push' matches it, and the
\* routing of the ten fragments is then the routing at the moment of that
\* push, whatever presets, 'output <fragment>', 'output everything' and
\* nested pushes and pops came between; an 'output pop' that no push
\* matches fails, and changes neither the routing nor the stack.
C22_PopRestoresRouting ==
    \A k \in 1..Len(hist) :
        IsPop(k) =>
            IF \E j \in 1..(k - 1) : Matches(j, k)
            THEN /\ hist[k].ok
                 /\ DOMAIN hist[k].fd = Fragments
                 /\ \A j \in 1..(k - 1) : Matches(j, k) => hist[k].fd = RoutingBefore(j)
                 /\ hist[k].depth = DepthBefore(k) - 1
            ELSE /\ ~hist[k].ok
                 /\ k = Len(hist)
                 /\ err = "Can't 'output pop', stack is empty!"
                 /\ hist[k].fd = RoutingBefore(k)
                 /\ hist[k].depth = DepthBefore(k)

\* a pop brought back the routing that a directive after its push had
\* changed, a nested push and pop having come between
C22_Witness ==
    /\ Len(hist) = 5
    /\ Matches(1, 5)
    /\ Matches(3, 4)
    /\ hist[5].ok
    /\ hist[2].fd # hist[1].fd
    /\ hist[4].fd = hist[2].fd
    /\ hist[5].fd = Clinic(TRUE, FALSE).destination_buffers

\* ------------------------------------------------------------------------
\* Specification of Clinic.add_include over bounded sequences of calls
\* ------------------------------------------------------------------------
\* most calls of add_include
MaxIncludeCalls == 3

IncludeNames == {"a.h", "b.h"}
IncludeReasons == {"r1", "r2", "r3"}
IncludeConditions == {NoCondition, <<"">>, <<"defined(X)">>, <<"defined(Y)">>}

InitInclude ==
    /\ pg = PermuteIdle
    /\ ParserIdle

\* one call of add_include; hist keeps the calls
AddInclude ==
    /\ Len(hist) < MaxIncludeCalls
    /\ \E name \in IncludeNames, reason \in IncludeReasons,
          condition \in IncludeConditions :
          /\ clinic' = add_include(clinic, name, reason, condition)
          /\ hist' = Append(hist, Include(name, reason, condition))
    /\ UNCHANGED <<pg, dsl, block, err, line, pc, files, run>>

NextInclude == AddInclude

SpecInclude == InitInclude /\ [][NextInclude]_vars

\* the calls made for a header, in order
CallsFor(name) == SelectSeq(hist, LAMBDA call : call.filename = name)

\* the calls made for a header without a condition
Unconditional(name) == SelectSeq(CallsFor(name), LAMBDA call : ~Truthy(call.condition))

\* C23: the include recorded for a header is unconditional exactly when
\* one of the calls for it was; it is then the first unconditional call
\* that is recorded, with its reason, so that no later call changes it;
\* and while all the calls are conditional, the condition and the reason
\* recorded are those of the first call.
C23_IncludeMerge ==
    \A name \in IncludeNames :
        CallsFor(name) # <<>> =>
            /\ IncludeIndex(clinic, name) # 0
            /\ ~Truthy(clinic.includes[IncludeIndex(clinic, name)].condition)
                   <=> Unconditional(name) # <<>>
            /\ clinic.includes[IncludeIndex(clinic, name)]
                   = IF Unconditional(name) # <<>> THEN Unconditional(name)[1]
                     ELSE CallsFor(name)[1]

\* a header included under a condition, then without one, then under a
\* condition again: the second call is the one recorded
C23_Witness ==
    /\ Len(CallsFor("a.h")) = 3
    /\ Truthy(hist[1].condition)
    /\ ~Truthy(hist[2].condition)
    /\ Truthy(hist[3].condition)
    /\ hist[2].reason # hist[1].reason
    /\ clinic.includes = <<hist[2]>>

\* ------------------------------------------------------------------------
\* The #ifndef guard of the method-def macro, checked under SpecRoute
\* ------------------------------------------------------------------------
\* the generated text that is in the lines printed so far or is held by a
\* destination that is not of type 'suppress'
RECURSIVE PrintedText(_)
PrintedText(lines) ==
    IF lines = <<>> THEN <<>>
    ELSE (IF Head(lines).t = "text" /\ "frag" \in DOMAIN Head(lines).v[1]
          THEN <<Head(lines).v[1]>> ELSE <<>>)
         \o PrintedText(Tail(lines))

EmittedText == PrintedText(run.printer) \o TextOfTypes(clinic, {"buffer", "file"}, 1)

\* the #ifndef guards emitted for the macro of a C basename
Guards(c_basename) ==
    {i \in 1..Len(EmittedText) :
        /\ EmittedText[i].frag = "methoddef_ifndef"
        /\ EmittedText[i].of.c_basename = c_basename}

\* C24: while the blocks of a file are processed, the #ifndef guard of a
\* method-def macro <C_BASENAME>_METHODDEF is in the text emitted so far at
\* most once.
C24_GuardOncePerMacro ==
    pc = "blocks" => Cardinality(Guards(<<"f">>)) <= 1

\* ------------------------------------------------------------------------
\* The order of the text of a destination, checked under SpecRoute
\* ------------------------------------------------------------------------
\* the last block that dumped the destination, 0 when none did
LastDump(name) ==
    LET ds == {i \in 1..Len(hist) : IsDirective(i, <<"dump", name>>)}
    IN  IF ds = {} THEN 0 ELSE CHOOSE i \in ds : \A j \in ds : j <= i

\* what was appended to the destination since it was dumped last, block
\* after block and within a block in the order of the generator
RECURSIVE AppendsSince(_, _)
AppendsSince(name, i) ==
    IF i > Len(hist) THEN <<>>
    ELSE SelectSeq(hist[i].appends, LAMBDA a : a.ref.dest = name)
         \o AppendsSince(name, i + 1)

AppendLog(name) == AppendsSince(name, LastDump(name) + 1)

PiecesIn(log) == [i \in 1..Len(log) |-> log[i].piece]

\* the log, buffer after buffer of the series
BySeries(log) ==
    PiecesIn(SelectSeq(log, LAMBDA a : a.ref.item = 0))
    \o PiecesIn(SelectSeq(log, LAMBDA a : a.ref.item = 1))

\* the destinations in the order of their creation: the four of
\* Clinic.__init__, then the one the directive 'destination d new' adds
CreationOrder == <<"block", "suppress", "buffer", "file", "d">>

Position(name) == CHOOSE i \in 1..Len(CreationOrder) : CreationOrder[i] = name

\* the destinations named by the 'dump' blocks that the flush put after
\* the blocks of the file
FlushedNames ==
    [k \in 1..Len(TrailingBlocks(run.cooked, run.printer)) |->
        TrailingBlocks(run.cooked, run.printer)[k].input[1].toks[2]]

\* the flush went through the destinations in the order of their creation
FlushInCreationOrder ==
    pc = "parsed" =>
        \A i, j \in 1..Len(FlushedNames) :
            i < j => Position(FlushedNames[i]) < Position(FlushedNames[j])

\* C25 as stated: the text a destination holds, which is what a dump of it
\* returns, is what was appended to it since its last dump, in the order
\* of the appends (block after block, and within a block in the order of
\* the generator); and at the end of the file the destinations are flushed
\* in the order of their creation.
C25_DumpInAppendOrder ==
    /\ pc = "blocks" =>
          \A i \in 1..Len(clinic.destinations) :
              clinic.destinations[i].name # "block" =>
                  BufferSeries_dump(clinic.destinations[i].buffers)
                      = PiecesIn(AppendLog(clinic.destinations[i].name))
    /\ FlushInCreationOrder

\* C25 amended: the text a destination holds is the text of the buffers of
\* its series, buffer 0 before buffer 1, and each buffer holds what was
\* appended to it since the last dump, in the order of the appends; at the
\* end of the file the destinations are flushed in the order of their
\* creation.
C25_DumpInSeriesOrder ==
    /\ pc = "blocks" =>
          \A i \in 1..Len(clinic.destinations) :
              clinic.destinations[i].name # "block" =>
                  BufferSeries_dump(clinic.destinations[i].buffers)
                      = BySeries(AppendLog(clinic.destinations[i].name))
    /\ FlushInCreationOrder

\* the destination 'buffer' got the #ifndef guard of a function before the
\* text of a later one, and the flush has written the text of two
\* destinations
C25_Witness ==
    /\ pc = "parsed"
    /\ Len(FlushedNames) = 2
    /\ \E i, j \in 1..Len(AppendLog("buffer")) :
          /\ i < j
          /\ AppendLog("buffer")[i].ref.item = 1
          /\ AppendLog("buffer")[j].ref.item = 0

\* ------------------------------------------------------------------------
\* Specification of the decorators of a block: decorator lines, then the
\* header of the function, in a file that has a module m and a class m.C
\* ------------------------------------------------------------------------
\* the decorators are fed while the parser holds fewer target names
MaxTargets == 3

DecoLines ==
    {<<"@critical_section">>, <<"@critical_section", "a">>,
     <<"@critical_section", "a", "b">>, <<"@critical_section", "b">>,
     <<"@critical_section", "a", "b", "c">>, <<"@classmethod">>}

DecoHeaders == {<<"m.f">>, <<"m.C.f">>}

DecoLinesToFeed ==
    IF dsl.state # "dsl_start" THEN {}
    ELSE {Ln(0, t) : t \in DecoHeaders
                         \cup (IF Len(dsl.target_critical_section) < MaxTargets
                               THEN DecoLines ELSE {})}

InitDeco ==
    /\ pg = PermuteIdle
    /\ files = NoFiles
    /\ run = NoRun
    /\ \E r \in {DSLParser_parse(DSLParser, Clinic(TRUE, FALSE), ScopeBlock)} :
          /\ dsl = r.ctx.dsl
          /\ clinic = r.ctx.clinic
    /\ block = Block(<<>>)
    /\ err = ""
    /\ line = NoLine
    /\ hist = <<>>
    /\ pc = "idle"

\* one turn of the loop over the lines of the block
DecoNextLine ==
    /\ pc = "lines"
    /\ err = ""
    /\ \E ln \in DecoLinesToFeed :
          \E r \in {ParseLine(Ctx(dsl, clinic, block, err, hist), ln)} :
              /\ line' = LineClass(ln)
              /\ dsl' = r.dsl
              /\ clinic' = r.clinic
              /\ block' = r.block
              /\ err' = r.err
              /\ hist' = r.hist
    /\ UNCHANGED <<pg, pc, files, run>>

NextDeco == ParseBegin \/ DecoNextLine \/ ParseEnd

SpecDeco == InitDeco /\ [][NextDeco]_vars

\* C26: a function that was declared and rendered without an error has at
\* most two critical-section target names, whatever decorators came before
\* its header.
C26_AtMostTwoTargets ==
    (pc = "done" /\ err = "" /\ dsl.function # 0)
        => Len(clinic.functions[dsl.function].target_critical_section) <= 2

\* ------------------------------------------------------------------------
\* Specification of the option groups of one block: the header f, then
\* brackets, parameters and '/'
\* ------------------------------------------------------------------------
\* most lines of the parameter section
MaxGroupLines == 8

GroupNames == <<"a", "b", "c", "d">>

GroupLinesToFeed ==
    IF dsl.state = "dsl_start" THEN {Ln(0, <<"f">>)}
    ELSE IF dsl.function # 0 /\ dsl.state \in {"parameters_start", "parameter"}
            /\ Len(hist) < MaxGroupLines
    THEN {Ln(4, t) : t \in
             {<<"[">>, <<"]">>, <<"/">>}
             \cup (IF Len(clinic.functions[dsl.function].parameters) <= Len(GroupNames)
                   THEN {<<GroupNames[Len(clinic.functions[dsl.function].parameters)],
                           ":", "int">>}
                   ELSE {})}
    ELSE {}

\* one turn of the loop over the lines of the block
GroupNextLine ==
    /\ pc = "lines"
    /\ err = ""
    /\ \E ln \in GroupLinesToFeed :
          \E r \in {ParseLine(Ctx(dsl, clinic, block, err, hist), ln)} :
              /\ line' = LineClass(ln)
              /\ dsl' = r.dsl
              /\ clinic' = r.clinic
              /\ block' = r.block
              /\ err' = r.err
              /\ hist' = r.hist
    /\ UNCHANGED <<pg, pc, files, run>>

NextGroup == ParseBegin \/ GroupNextLine \/ ParseEnd

SpecGroup == InitDSL /\ [][NextGroup]_vars

\* ------------------------------------------------------------------------
\* Properties of the option groups, checked under SpecGroup
\* ------------------------------------------------------------------------
\* the block was parsed and rendered without an error, and declares a
\* function
Accepted == pc = "done" /\ err = "" /\ dsl.function # 0

\* the group ids of the parameters declared so far, the receiver left out
GroupIds ==
    IF dsl.function = 0 THEN <<>>
    ELSE [i \in 1..(Len(clinic.functions[dsl.function].parameters) - 1) |->
             clinic.functions[dsl.function].parameters[i + 1].group]

NonDecreasing(ids) == \A i, j \in 1..Len(ids) : i < j => ids[i] <= ids[j]

\* C27 as stated: in an accepted function the group ids of the declared
\* parameters, read in the order of declaration, never decrease (negative
\* ids, then 0, then positive ids).
C27_GroupIdsNonDecreasing ==
    Accepted => NonDecreasing(GroupIds)

\* brackets opened minus brackets closed over the accepted lines j..k
Bal(j, k) ==
    Cardinality({i \in j..k : hist[i].sym = "["})
    - Cardinality({i \in j..k : hist[i].sym = "]"})

\* the '[' that the ']' of line k closes
Openers(k) ==
    {j \in 1..(k - 1) : /\ hist[j].sym = "["
                        /\ Bal(j, k) = 0
                        /\ \A i \in j..(k - 1) : Bal(j, i) > 0}

\* the parameters declared directly in the group of lines j..k
DirectParams(j, k) ==
    {i \in (j + 1)..(k - 1) : hist[i].sym = "param" /\ Bal(j, i) = 1}

\* C28: every accepted ']' closes a group that was opened and that holds
\* at least one parameter declared directly in it; a ']' with no open group
\* and a ']' closing an empty group, on either side, are rejected
C28_GroupsNonEmpty ==
    \A k \in 1..Len(hist) :
        hist[k].sym = "]" => \E j \in Openers(k) : DirectParams(j, k) # {}

\* an accepted function with a left group, a required parameter and a
\* right group
C28_Witness ==
    /\ Accepted
    /\ Cardinality({k \in 1..Len(hist) : hist[k].sym = "]"}) = 2
    /\ \E i \in 1..Len(GroupIds) : GroupIds[i] < 0
    /\ \E i \in 1..Len(GroupIds) : GroupIds[i] > 0

\* ------------------------------------------------------------------------
\* Specification of the parser's states over one block whose lines start
\* in any of a few columns
\* ------------------------------------------------------------------------
\* most parameter-section entries and docstring lines of the block
MaxStateLines == 3

\* the columns a line starts in
StateIndents == {0, 2, 4, 6}

\* the parameters of the function being declared, the receiver left out
OwnParameters ==
    IF dsl.function = 0 THEN <<>>
    ELSE Tail(clinic.functions[dsl.function].parameters)

\* the docstring lines the block holds so far
DocLinesHeld ==
    IF dsl.function = 0 THEN 0
    ELSE Len(clinic.functions[dsl.function].docstring)
         + DocLinesTotal(clinic.functions[dsl.function].parameters)

\* a directive, a decorator, a header, a marker, the next parameter (whole
\* or continued), a blank line and a comment
StateTexts ==
    {<<"preserve">>, <<"@classmethod">>, <<"g">>, <<"/">>, <<>>, <<"#">>}
    \cup (IF Len(OwnParameters) < Len(ParameterNames)
          THEN {<<ParameterNames[Len(OwnParameters) + 1], ":", "int">>}
          ELSE {})
    \cup (IF Len(OwnParameters) < Len(ParameterNames)
             /\ dsl.parameter_continuation = NoContinuation
          THEN {<<ParameterNames[Len(OwnParameters) + 1], "\\">>}
          ELSE {})

StateLinesToFeed ==
    IF Len(hist) + DocLinesHeld < MaxStateLines
    THEN {Ln(i, t) : i \in StateIndents, t \in StateTexts}
    ELSE {}

\* one turn of the loop over the lines of the block
StateNextLine ==
    /\ pc = "lines"
    /\ err = ""
    /\ \E ln \in StateLinesToFeed :
          \E r \in {ParseLine(Ctx(dsl, clinic, block, err, hist), ln)} :
              /\ line' = [kind |-> LineClass(ln).kind, indent |-> ln.indent,
                          state |-> dsl.state, depth |-> depth(dsl.indent)]
              /\ dsl' = r.dsl
              /\ clinic' = r.clinic
              /\ block' = r.block
              /\ err' = r.err
              /\ hist' = r.hist
    /\ UNCHANGED <<pg, pc, files, run>>

NextState == ParseBegin \/ StateNextLine \/ ParseEnd

SpecState == InitDSL /\ [][NextState]_vars

\* ------------------------------------------------------------------------
\* Properties of the parser's states, checked under SpecState
\* ------------------------------------------------------------------------
\* the order of the states within one block
StateRank(st) ==
    CASE st = "dsl_start" -> 0
      [] st = "modulename_name" -> 1
      [] st = "parameters_start" -> 2
      [] st \in {"parameter", "parameter_docstring_start", "parameter_docstring"} -> 3
      [] OTHER -> 4

\* a line of the block was handled and raised nothing
LineHandled == pc = "lines" /\ pc' = "lines" /\ err' = ""

\* the Clinic object with the docstring of the current function left out
BesidesDocstring(c) == [c EXCEPT !.functions[dsl.function].docstring = <<>>]

\* a line handled in the function docstring changes that docstring alone
DocstringOnly ==
    /\ dsl' = dsl
    /\ hist' = hist
    /\ block' = block
    /\ BesidesDocstring(clinic') = BesidesDocstring(clinic)

\* C29: within one block the state of the parser never moves back, except
\* between PARAMETER and PARAMETER_DOCSTRING; once it is FUNCTION_DOCSTRING
\* it stays so and every later line changes the docstring of the function
\* alone; the block declares at most one function
C29_StateProgression ==
    [][LineHandled =>
          /\ StateRank(dsl'.state) >= StateRank(dsl.state)
          /\ dsl.state = "function_docstring" => DocstringOnly
          /\ Len(clinic'.functions) <= 1]_vars

\* the text of a docstring line, whatever its column
DocstringHolds(t) ==
    \E i \in 1..Len(clinic.functions[dsl.function].docstring) :
        clinic.functions[dsl.function].docstring[i].toks = t

\* after a parameter, a header and a directive were taken into the docstring
C29_Witness ==
    /\ pc = "lines"
    /\ err = ""
    /\ dsl.state = "function_docstring"
    /\ Len(OwnParameters) = 1
    /\ DocstringHolds(<<"g">>)
    /\ DocstringHolds(<<"preserve">>)

\* the line handled starts left of the current column, in a column that
\* is not on the stack, in a state that infers the margin from it
OffColumn ==
    /\ line'.kind = "text"
    /\ \/ dsl.state = "parameters_start"
       \/ dsl.state = "parameter" /\ dsl.parameter_continuation = NoContinuation
       \/ dsl.state = "parameter_docstring"
    /\ line'.indent < Top(dsl.indent)
    /\ \A i \in 1..depth(dsl.indent) : dsl.indent.indents[i] # line'.indent

\* C30: no assertion on the depth of the indent stack fails: the depth is
\* 2 while the state is PARAMETER, 3 on entering a parameter docstring,
\* 2 or 1 after the outdent out of it and never more than 3; a line in a
\* column that fits none of the stack raises ClinicError 'Illegal outdent.'
C30_IndentDepth ==
    [][(pc = "lines" /\ pc' = "lines") =>
          /\ err' # "AssertionError"
          /\ depth(dsl'.indent) <= 3
          /\ dsl.state = "parameter" => depth(dsl.indent) = 2
          /\ (err' = "" /\ dsl'.state = "parameter") => depth(dsl'.indent) = 2
          /\ (err' = "" /\ dsl.state = "parameter" /\ dsl'.state = "parameter_docstring")
                => depth(dsl'.indent) = 3
          /\ (err' = "" /\ dsl.state = "parameter_docstring"
                        /\ dsl'.state # "parameter_docstring")
                => depth(dsl'.indent) \in {1, 2}
          /\ OffColumn => err' = "Illegal outdent."]_vars

\* a line of a parameter docstring, at depth 3, outdented to a column that
\* is not on the stack
C30_Witness ==
    /\ pc = "lines"
    /\ err = "Illegal outdent."
    /\ line.state = "parameter_docstring"
    /\ line.depth = 3

\* ------------------------------------------------------------------------
\* Specification of IndentStack: calls of infer on one stack
\* ------------------------------------------------------------------------
\* most calls of infer on the stack
MaxInferCalls == 4

\* the widths of the margins of the lines
InferIndents == {0, 2, 4, 6}

\* the lines handed to infer: text or nothing after the margin, a tab or none
InferLines ==
    {[indent |-> i, toks |-> t, tab |-> b] :
        i \in InferIndents, t \in {<<>>, <<"text">>}, b \in BOOLEAN}

InitIndent ==
    /\ pg = PermuteIdle
    /\ ParserIdle

\* one call of infer; a call that raises leaves the object in use.  hist
\* keeps the line, the stack before the call and what the call gave
InferCall ==
    /\ Len(hist) < MaxInferCalls
    /\ \E ln \in InferLines :
          \E r \in {infer(dsl.indent, ln)} :
              /\ dsl' = [dsl EXCEPT !.indent = r.ind]
              /\ hist' = Append(hist, [ln |-> ln, before |-> dsl.indent,
                                       fail |-> r.fail, r |-> r.r])
    /\ UNCHANGED <<pg, clinic, block, err, line, pc, files, run>>

NextIndent == InferCall

SpecIndent == InitIndent /\ [][NextIndent]_vars

\* the last call of infer
LastCall == hist[Len(hist)]

StrictlyIncreasing(s) == \A i, j \in 1..Len(s) : i < j => s[i] < s[j]

\* the width measure gives for the line of a call: the top of the stack
\* for a line of nothing but white space
Measured(call) ==
    IF call.ln.toks = <<>> THEN Top(call.before) ELSE call.ln.indent

\* a call that outdents to a width the stack does not hold
UnmatchedOutdent(call) ==
    /\ ~call.ln.tab
    /\ call.before.indents # <<>>
    /\ Measured(call) < Top(call.before)
    /\ \A i \in 1..depth(call.before) : call.before.indents[i] # Measured(call)

\* C31: the stack of indents is strictly increasing; a call of infer that
\* succeeds leaves the top and the margin at the measured width of the
\* line and returns the new depth minus the old one: 1 for the first line
\* or a deeper one, 0 for the same width, -N after N pops; an outdent to a
\* width not on the stack raises and leaves the stack as it was
C31_InferStack ==
    /\ StrictlyIncreasing(dsl.indent.indents)
    /\ hist # <<>> /\ LastCall.fail = "" =>
          /\ Top(dsl.indent) = Measured(LastCall)
          /\ dsl.indent.margin = Measured(LastCall)
          /\ LastCall.r = depth(dsl.indent) - depth(LastCall.before)
          /\ LastCall.r =
                IF LastCall.before.indents = <<>> THEN 1
                ELSE IF Measured(LastCall) > Top(LastCall.before) THEN 1
                ELSE IF Measured(LastCall) = Top(LastCall.before) THEN 0
                ELSE -Cardinality({i \in 1..depth(LastCall.before) :
                                      LastCall.before.indents[i] > Measured(LastCall)})
    /\ hist # <<>> /\ LastCall.fail # "" => dsl.indent = LastCall.before
    /\ hist # <<>> /\ UnmatchedOutdent(LastCall) => LastCall.fail = "Illegal outdent."

\* an outdent that popped two of three entries
C31_Witness ==
    /\ Len(hist) = MaxInferCalls
    /\ LastCall.fail = ""
    /\ LastCall.r = -2
    /\ depth(dsl.indent) = 1

\* ------------------------------------------------------------------------
\* Specification of one BufferSeries whose buffers are objects: the array
\* holds references <<n>> to the lists heap[n], and the callers keep the
\* references that series[i] returned
\* ------------------------------------------------------------------------
\* most operations on the series
MaxSeriesOps == 5

\* the indices the series is asked for
SeriesIndexes == {-2, -1, 0, 1}

\* the strings appended to a buffer
SeriesTexts == {<<"x">>, <<"y">>}

\* the empty lists __getitem__ made become new objects of the heap, in
\* the order of the array
RECURSIVE Allocate(_, _, _)
Allocate(array, heap, k) ==
    IF k > Len(array) THEN [array |-> array, heap |-> heap]
    ELSE IF array[k] = <<>>
    THEN Allocate([array EXCEPT ![k] = <<Len(heap) + 1>>], Append(heap, <<>>), k + 1)
    ELSE Allocate(array, heap, k + 1)

\* the series with the lists themselves in place of the references
Deref(bs, heap) ==
    [start |-> bs.start, array |-> [k \in 1..Len(bs.array) |-> heap[bs.array[k][1]]]]

\* the heap the cleared series leaves
ClearedHeap(bs, heap) ==
    [n \in 1..Len(heap) |->
        IF \E k \in 1..Len(bs.array) : bs.array[k] = <<n>>
        THEN BufferSeries_clear(Deref(bs, heap)).array[
                 CHOOSE k \in 1..Len(bs.array) : bs.array[k] = <<n>>]
        ELSE heap[n]]

InitSeries ==
    /\ pg = PermuteIdle
    /\ files = NoFiles
    /\ dsl = DSLParser
    /\ clinic = Clinic(TRUE, FALSE)
    /\ block = Block(<<>>)
    /\ err = ""
    /\ line = NoLine
    /\ hist = <<>>
    /\ pc = "idle"
    /\ run = [series |-> BufferSeries, heap |-> <<>>, held |-> {}]

\* series[i]: the caller keeps the reference it got
SeriesGetItem ==
    /\ Len(hist) < MaxSeriesOps
    /\ \E i \in SeriesIndexes :
          \E bs \in {BufferSeries_getitem(run.series, i)} :
              \E a \in {Allocate(bs.array, run.heap, 1)} :
                  /\ run' = [series |-> [start |-> bs.start, array |-> a.array],
                             heap |-> a.heap,
                             held |-> run.held \cup {<<i, a.array[i - bs.start + 1]>>}]
                  /\ hist' = Append(hist, [op |-> "getitem", i |-> i,
                                           ref |-> a.array[i - bs.start + 1],
                                           out |-> <<>>, before |-> run])
    /\ UNCHANGED <<pg, dsl, clinic, block, err, line, pc, files>>

\* list.append through a reference obtained earlier
SeriesAppend ==
    /\ Len(hist) < MaxSeriesOps
    /\ \E h \in run.held, text \in SeriesTexts :
          /\ run' = [run EXCEPT !.heap[h[2][1]] = @ \o text]
          /\ hist' = Append(hist, [op |-> "append", i |-> h[1], ref |-> h[2],
                                   out |-> text, before |-> run])
    /\ UNCHANGED <<pg, dsl, clinic, block, err, line, pc, files>>

\* BufferSeries.dump
SeriesDump ==
    /\ Len(hist) < MaxSeriesOps
    /\ run' = [run EXCEPT !.heap = ClearedHeap(run.series, run.heap)]
    /\ hist' = Append(hist, [op |-> "dump", i |-> 0, ref |-> <<>>,
                             out |-> BufferSeries_dump(Deref(run.series, run.heap)),
                             before |-> run])
    /\ UNCHANGED <<pg, dsl, clinic, block, err, line, pc, files>>

NextSeries == SeriesGetItem \/ SeriesAppend \/ SeriesDump

SpecSeries == InitSeries /\ [][NextSeries]_vars

\* the text of the buffers the callers hold, by ascending index from lo
RECURSIVE HeldText(_, _, _)
HeldText(r, lo, hi) ==
    IF lo > hi THEN <<>>
    ELSE (IF \E h \in r.held : h[1] = lo
          THEN r.heap[(CHOOSE h \in r.held : h[1] = lo)[2][1]]
          ELSE <<>>)
         \o HeldText(r, lo + 1, hi)

\* C32: series[i] gives the same buffer as every earlier series[i]; dump
\* returns the text of all buffers by ascending index, empties every
\* buffer and keeps the buffers, so that a buffer obtained before a dump
\* is dumped again with what was appended to it afterwards
C32_SeriesStable ==
    /\ \A g, h \in run.held : g[1] = h[1] => g[2] = h[2]
    /\ \A k \in 1..Len(hist) :
          hist[k].op = "dump" =>
             /\ hist[k].out = HeldText(hist[k].before, -2, 1)
             /\ (IF k < Len(hist) THEN hist[k + 1].before ELSE run).series
                   = hist[k].before.series
             /\ \A n \in 1..Len(hist[k].before.heap) :
                   (IF k < Len(hist) THEN hist[k + 1].before ELSE run).heap[n] = <<>>

\* a buffer obtained before a dump and before the series grew to the left,
\* appended to after the dump and dumped again
C32_Witness ==
    /\ Len(hist) = 5
    /\ hist[1].op = "getitem" /\ hist[1].i = 0
    /\ hist[2].op = "dump"
    /\ hist[3].op = "getitem" /\ hist[3].i = -1
    /\ hist[4].op = "append" /\ hist[4].i = 0
    /\ hist[5].op = "dump" /\ hist[5].out # <<>>

\* ------------------------------------------------------------------------
\* The text of the parser function (clinic.py 614-647, 659-745, 1097-1134,
\* 1338-1350), as the statements that matter for the critical section: the
\* exits of the parsing code, the lock, the call of the impl, the unlock
\* ------------------------------------------------------------------------
\* data.lock and data.unlock of render_function
LockText(f) ==
    IF ~f.critical_section THEN <<>>
    ELSE IF Len(f.target_critical_section) <= 1 THEN <<"Py_BEGIN_CRITICAL_SECTION">>
    ELSE <<"Py_BEGIN_CRITICAL_SECTION2">>

UnlockText(f) ==
    IF ~f.critical_section THEN <<>>
    ELSE IF Len(f.target_critical_section) <= 1 THEN <<"Py_END_CRITICAL_SECTION">>
    ELSE <<"Py_END_CRITICAL_SECTION2">>

\* the call of the impl in the finale, and in the templates without one
ImplCall == "return_value = impl"
DirectCall == "return impl"

\* parser_body: the fields, then the finale with {lock} and {unlock} filled
parser_body(fields, f) ==
    fields \o LockText(f) \o <<ImplCall>> \o UnlockText(f)
           \o <<"return_conversion", "return return_value">>

\* the exits of the parsing code a branch hands to parser_body
ParserCode(f, t) ==
    IF t.parser_definition \in {"", "no_arguments", "impl_parameters"} THEN <<>>
    ELSE IF t.parser_definition = "takes_no_arguments"
    THEN <<IF simple_return(f) THEN "return NULL" ELSE "goto exit">>
    ELSE <<"goto exit">>

\* the branch made no parser function, or one that calls the impl directly
NoParserBody(f, ps, t) ==
    \/ ps = <<>> /\ simple_return(f)
    \/ t.parser_definition = ""

\* "if new_or_init:": the checks put before parser_body_fields
SlotChecks(t) ==
    IF InFlags("METH_KEYWORDS", t.flags) THEN <<>>
    ELSE IF InFlags("METH_NOARGS", t.flags) THEN <<"goto exit", "goto exit">>
    ELSE <<"goto exit">>

\* the parser definition of the branch t was chosen in
BranchText(f, ps, t) ==
    IF t.raise # "" THEN <<>>
    ELSE IF new_or_init(f.kind)
    THEN parser_body(SlotChecks(t) \o (IF NoParserBody(f, ps, t) THEN <<>>
                                       ELSE ParserCode(f, t)), f)
    ELSE IF ps = <<>> /\ simple_return(f) THEN ParserCode(f, t) \o <<DirectCall>>
    ELSE IF t.parser_definition = "" THEN <<>>
    ELSE parser_body(ParserCode(f, t), f)

\* templates['parser_definition'] as render_function formats it
ParserText(f, limited_capi) ==
    BranchText(f, TemplateParameters(f),
               SelectTemplate(f, TemplateParameters(f),
                              limited_capi /\ ~LimitedForbids(TemplateParameters(f))))

\* ------------------------------------------------------------------------
\* Specification of the blocks whose function asks for a critical section
\* ------------------------------------------------------------------------
LockDecorators == {<<"@classmethod">>, <<"@getter">>, <<"@setter">>}

LockTargets == {<<"@critical_section">>, <<"@critical_section", "a">>,
                <<"@critical_section", "a", "b">>}

LockLinesToFeed ==
    IF dsl.state = "dsl_start"
    THEN IF ~dsl.critical_section THEN {Ln(0, t) : t \in LockTargets}
         ELSE {Ln(0, t) : t \in GenHeaders \cup (IF dsl.kind = "CALLABLE"
                                                  THEN LockDecorators ELSE {})}
    ELSE IF dsl.function # 0 /\ dsl.state \in {"parameters_start", "parameter"}
            /\ Len(hist) < MaxGenLines
    THEN {Ln(4, t) : t \in GenParameterLines(DeclaredNames(clinic.functions[dsl.function].parameters))}
    ELSE {}

\* one turn of the loop over the lines of the function's block
LockNextLine ==
    /\ pc = "lines"
    /\ err = ""
    /\ \E ln \in LockLinesToFeed :
          \E r \in {ParseLine(Ctx(dsl, clinic, block, err, hist), ln)} :
              /\ line' = LineClass(ln)
              /\ dsl' = r.dsl
              /\ clinic' = r.clinic
              /\ block' = r.block
              /\ err' = r.err
              /\ hist' = r.hist
    /\ UNCHANGED <<pg, pc, files, run>>

NextLock == ParseBegin \/ LockNextLine \/ ParseEnd

SpecLock == InitGen /\ [][NextLock]_vars

\* the text has one call of the impl, right after the begin macro and
\* right before the matching end macro
Wrapped(text) ==
    /\ Cardinality({i \in 1..Len(text) : text[i] \in {ImplCall, DirectCall}}) = 1
    /\ \E i \in 2..(Len(text) - 1) :
          /\ text[i] = ImplCall
          /\ \/ /\ text[i - 1] = "Py_BEGIN_CRITICAL_SECTION"
                /\ text[i + 1] = "Py_END_CRITICAL_SECTION"
             \/ /\ text[i - 1] = "Py_BEGIN_CRITICAL_SECTION2"
                /\ text[i + 1] = "Py_END_CRITICAL_SECTION2"

\* C33: for every generated function that asks for a critical section,
\* whatever the calling convention, the parser function holds the begin
\* macro, the call of the impl and the matching end macro in this order
\* with nothing between them, and no template calls the impl directly
C33_LockWrapsImpl ==
    (Generated /\ GenFunction.critical_section) =>
        Wrapped(ParserText(GenFunction, clinic.limited_capi))

\* a METH_O function with an object parameter and a critical section
C33_Witness ==
    /\ Generated
    /\ GenFunction.critical_section
    /\ GenTemplates.flags = <<"METH_O">>
    /\ GenTemplates.parser_definition = "impl_parameters"

\* ------------------------------------------------------------------------
\* Properties of the group ids, checked under SpecDSL
\* ------------------------------------------------------------------------
\* the parser holds a function and has raised nothing over its lines
ParserAccepts == dsl.function # 0 /\ pc \in {"lines", "done"} /\ (pc = "lines" => err = "")

NoRequiredRun == \A i \in 1..Len(GroupIds) : GroupIds[i] # 0

\* C34: while no parameter of the function has group id 0, none has a
\* negative one, so that permute_optional_groups is never called with an
\* empty required and a left that is not
C34_NoLeftWithoutRequired ==
    ParserAccepts =>
        /\ NoRequiredRun => \A i \in 1..Len(GroupIds) : GroupIds[i] > 0
        /\ ~permute_raises(OptionGroupsOf(clinic.functions[dsl.function]).left,
                           OptionGroupsOf(clinic.functions[dsl.function]).required)

\* an accepted function whose parameters are all in groups
C34_Witness ==
    /\ Accepted
    /\ GroupIds # <<>>
    /\ NoRequiredRun
    /\ OptionGroupsOf(clinic.functions[dsl.function]).right # <<>>

\* C35: in every parameter block the parser accepts no positional-only
\* parameter follows one that is not positional-only, so the assertion
\* of format_docstring_signature holds
C35_PositionalOnlyFirst ==
    ParserAccepts =>
        ~PositionalOnlyAssertFails(clinic.functions[dsl.function].parameters)

\* ------------------------------------------------------------------------
\* Specification of the declarations of one block: module and class
\* directives, then a function header
\* ------------------------------------------------------------------------
\* most modules, classes and functions the block declares
MaxScopeLines == 4

ScopeLines ==
    {<<"module", "m">>, <<"module", "k">>, <<"module", "m.n">>, <<"module", "m.n.p">>,
     <<"class", "m.C", "T", "&T">>, <<"class", "m.n.D", "T", "&T">>,
     <<"class", "m.C.D", "T", "&T">>, <<"m.f">>, <<"m.n.f">>, <<"m.C.f">>}

ScopeLinesToFeed ==
    IF dsl.state = "dsl_start" /\ Len(block.signatures) < MaxScopeLines
    THEN {Ln(0, t) : t \in ScopeLines}
    ELSE {}

\* one turn of the loop over the lines of the block
ScopeNextLine ==
    /\ pc = "lines"
    /\ \E ln \in ScopeLinesToFeed :
          \E r \in {ParseLine(Ctx(dsl, clinic, block, "", hist), ln)} :
              /\ line' = LineClass(ln)
              /\ dsl' = IF r.err = "" THEN r.dsl ELSE dsl
              /\ clinic' = IF r.err = "" THEN r.clinic ELSE clinic
              /\ block' = IF r.err = "" THEN r.block ELSE block
              /\ err' = r.err
              /\ hist' = r.hist
    /\ UNCHANGED <<pg, pc, files, run>>

NextScope == ParseBegin \/ ScopeNextLine

SpecScope == InitDSL /\ [][NextScope]_vars

\* the module declared under the dotted name n
ModuleDeclared(n) ==
    \E path \in clinic.modules : Last(path) = ModuleKey(n)

\* C36: once `module m` and then `module m.n` have been accepted, the
\* dotted name m.n resolves as a parent, so a later `module m.n.p`,
\* `class m.n.D ...` or header `m.n.f` finds its parent module
C36_DottedModulesResolve ==
    (pc = "lines" /\ err = "" /\ ModuleDeclared("m") /\ ModuleDeclared("m.n"))
        => _module_and_class(clinic, <<"m", "n">>).fail = ""

\* a second declaration of a module or class in the same parent is refused:
\* the signatures of a block never name the same module or class twice
ScopeDeclaredOnce ==
    \A i, j \in 1..Len(block.signatures) :
        (i # j /\ block.signatures[i].t \in {"module", "class"})
            => block.signatures[i] # block.signatures[j]

\* ------------------------------------------------------------------------
\* Specification of parse_file with two destinations of type 'file'
\* ------------------------------------------------------------------------
\* most blocks of a host file with two file destinations
MaxSidecarBlocks == 3

SidecarSourceBlocks ==
    {SourceBlock(<<Ln(0, <<"f">>), Ln(4, <<"a", ":", "int">>)>>),
     SourceBlock(<<Ln(0, <<"g">>)>>),
     SourceBlock(<<Ln(0, <<"destination", "d", "new", "file", "o.h">>),
                   Ln(0, <<"output", "everything", "d">>)>>),
     SourceBlock(<<Ln(0, <<"output", "preset", "file">>)>>)}

SidecarHostFiles ==
    {Prose} \cup
    {Flatten(bs) \o Prose :
        bs \in UNION {[1..n -> SidecarSourceBlocks] : n \in 1..MaxSidecarBlocks}}

\* a destination file as an earlier run wrote it, and the same after a hand
\* edit
WrittenSidecar == print_block(FileBlock("clinic", <<Ln(0, <<"preserve">>)>>, OldText, FALSE))
EditedSidecar == WrittenSidecar \o Prose

InitSidecars ==
    /\ pg = PermuteIdle
    /\ dsl = DSLParser
    /\ clinic = Clinic(TRUE, FALSE)
    /\ block = Block(<<>>)
    /\ err = ""
    /\ line = NoLine
    /\ hist = <<>>
    /\ pc = "idle"
    /\ \E h \in SidecarHostFiles :
       \E s, o \in {<<>>, WrittenSidecar, EditedSidecar} :
          files = [NoFiles EXCEPT !.host = h,
                                  !.sidecar = s, !.sidecar_exists = (s # <<>>),
                                  !.other = o, !.other_exists = (o # <<>>)]
    /\ run = NoRun

NextSidecars == RunClinic \/ NextBlock \/ Flush \/ WriteFile

SpecSidecars == InitSidecars /\ [][NextSidecars]_vars

MaxKindBlocks == 2

KindDecorators == {<<"@classmethod">>, <<"@staticmethod">>, <<"@getter">>, <<"@setter">>}

KindHeaders == {<<"m.f">>, <<"m.g">>, <<"m.C.f">>, <<"m.C.g">>}

KindLinesToFeed ==
    IF dsl.state # "dsl_start" THEN {}
    ELSE {Ln(0, t) : t \in KindDecorators \cup KindHeaders}

\* one turn of the loop over the lines of the block
KindNextLine ==
    /\ pc = "lines"
    /\ err = ""
    /\ \E ln \in KindLinesToFeed :
          \E r \in {ParseLine(Ctx(dsl, clinic, block, err, hist), ln)} :
              /\ line' = [kind |-> "text", tab |-> ln.tab, toks |-> ln.toks]
              /\ dsl' = r.dsl
              /\ clinic' = r.clinic
              /\ block' = r.block
              /\ err' = r.err
              /\ hist' = r.hist
    /\ UNCHANGED <<pg, pc, files, run>>

\* Clinic.parse: the loop over the blocks hands the parser the next block
KindNextBlock ==
    /\ pc = "done"
    /\ err = ""
    /\ run.n < MaxKindBlocks
    /\ run' = [run EXCEPT !.n = @ + 1]
    /\ block' = Block(<<>>)
    /\ line' = NoLine
    /\ pc' = "idle"
    /\ UNCHANGED <<pg, dsl, clinic, err, hist, files>>

NextKind == ParseBegin \/ KindNextLine \/ ParseEnd \/ KindNextBlock

SpecKind == InitDeco /\ [][NextKind]_vars

\* the step fed a kind decorator to the parser
KindDecoratorFed ==
    /\ pc = "lines" /\ pc' = "lines" /\ err = ""
    /\ <<dsl, err>>' # <<dsl, err>>
    /\ line'.toks \in KindDecorators

\* C38: a kind decorator that comes after another kind decorator of the
\* same block (the kind is no longer the plain callable) is rejected,
\* whichever the two are and in whichever order; and every block starts
\* with the kind reset to the plain callable
C38_KindDecoratorsExclusive ==
    [][/\ (KindDecoratorFed /\ dsl.kind # "CALLABLE") => err' # ""
       /\ (pc = "idle" /\ pc' = "lines") => dsl'.kind = "CALLABLE"]_vars

\* ------------------------------------------------------------------------
\* Specification of parse_file over host files with 'preserve' blocks
\* ------------------------------------------------------------------------
\* most blocks of a host file with 'preserve' blocks
MaxPreserveBlocks == 3

PreserveLine == Ln(0, <<"preserve">>)

\* a block as an earlier run left it: its input, the output region and the
\* checksum line
KeptBlock(input) == print_block(FileBlock("clinic", input, OldText, FALSE))

PreserveSourceBlocks ==
    {KeptBlock(<<PreserveLine>>),
     KeptBlock(<<PreserveLine, Ln(0, <<"module", "k">>)>>),
     KeptBlock(<<PreserveLine, PreserveLine>>),
     KeptBlock(<<PreserveLine, Ln(0, <<"printout", "hello">>)>>),
     KeptBlock(<<Ln(0, <<"printout", "hello">>), PreserveLine>>),
     KeptBlock(<<PreserveLine, Ln(0, <<"dump", "buffer">>)>>),
     KeptBlock(<<PreserveLine, Ln(0, <<"f">>)>>),
     SourceBlock(<<Ln(0, <<"g">>)>>),
     SourceBlock(<<Ln(0, <<"printout", "hello">>)>>)}

PreserveHostFiles ==
    {Flatten(bs) \o Prose :
        bs \in UNION {[1..n -> PreserveSourceBlocks] : n \in 1..MaxPreserveBlocks}}

InitPreserve ==
    /\ pg = PermuteIdle
    /\ dsl = DSLParser
    /\ clinic = Clinic(TRUE, FALSE)
    /\ block = Block(<<>>)
    /\ err = ""
    /\ line = NoLine
    /\ hist = <<>>
    /\ pc = "idle"
    /\ \E h \in PreserveHostFiles : files = [NoFiles EXCEPT !.host = h]
    /\ run = NoRun

NextPreserve == RunClinic \/ NextBlock \/ Flush \/ WriteFile

SpecPreserve == InitPreserve /\ [][NextPreserve]_vars

\* the block Clinic.parse is about to hand to the parser
BlockAhead == BlockParser_next(run.rest, clinic.verify).block

\* the step is a turn of the loop of Clinic.parse over the blocks, on a
\* Clinic block
ClinicBlockStep ==
    /\ pc = "blocks"
    /\ run.rest # <<>>
    /\ (err' # "" \/ run'.rest # run.rest)
    /\ BlockAhead.dsl_name # ""

PreserveCount(b) == Cardinality({i \in 1..Len(b.input) : b.input[i] = PreserveLine})

\* the input has a line that makes output: a printout or a function
MakesOutput(b) ==
    \E i \in 1..Len(b.input) :
        b.input[i].toks # <<>> /\ Head(b.input[i].toks) \in {"printout", "f", "g"}

PathNames == {"a", "b"}
\* longest path the file system takes; a longer one is refused with an
\* OSError
MaxDepth == 3
\* most calls of copy() or move()
MaxCalls == 2

Paths == UNION {[1..n -> PathNames] : n \in 0..MaxDepth}
CallPaths == {p \in Paths : Len(p) <= 2}

\* PurePathBase.parents
parents(p) == {SubSeq(p, 1, k) : k \in 0..(Len(p) - 1)}

\* q is p or lies below p
Within(p, q) == Len(q) >= Len(p) /\ SubSeq(q, 1, Len(p)) = p

\* a file system with the given directories, files and symbolic links
\* (every link points at a file)
Tree(dirs, regular, links) ==
    [p \in Paths |-> IF p = <<>> \/ p \in dirs THEN "dir"
                     ELSE IF p \in regular THEN "file"
                     ELSE IF p \in links THEN "link"
                     ELSE "none"]

PathTrees ==
    {Tree({<<"a">>, <<"a", "b">>}, {<<"a", "a">>, <<"a", "b", "a">>}, {}),
     Tree({<<"b">>}, {<<"a">>}, {}),
     Tree({<<"a">>, <<"b">>, <<"b", "a">>}, {}, {<<"a", "a">>}),
     Tree({<<"a">>, <<"a", "a">>}, {<<"a", "a", "a">>}, {})}

\* PathBase.iterdir
iterdir(fs, p) ==
    {q \in Paths : Len(q) = Len(p) + 1 /\ Within(p, q) /\ fs[q] # "none"}

\* the orders in which list(source.iterdir()) may hold the children
Orders(S) ==
    {s \in [1..Cardinality(S) -> S] : \A i, j \in 1..Cardinality(S) : i # j => s[i] # s[j]}

\* the check that only compares the two paths for equality
_ensure_distinct_path_equal_only(path, source) ==
    IF source = path THEN "Source and target are the same path" ELSE ""

\* CopyWorker._ensure_distinct_path: "" or the message of OSError(EINVAL)
_ensure_distinct_path(path, source) ==
    IF source = path THEN "Source and target are the same path"
    ELSE IF source \in parents(path) THEN "Source path is a parent of target path"
    ELSE ""

\* the branch _create and _create_dir take for a source: _create_symlink,
\* _create_dir or _create_file
Branch(fs, src, follow_symlinks) ==
    IF ~follow_symlinks /\ fs[src] = "link" THEN "symlink"
    ELSE IF fs[src] = "dir" THEN "dir"
    ELSE "file"

\* PathBase.mkdir(exist_ok): [ok, fs]
mkdir(fs, p, exist_ok) ==
    IF p \notin Paths THEN [ok |-> FALSE, fs |-> fs]
    ELSE IF fs[p] = "dir" /\ exist_ok THEN [ok |-> TRUE, fs |-> fs]
    ELSE IF fs[p] # "none" \/ fs[SubSeq(p, 1, Len(p) - 1)] # "dir"
    THEN [ok |-> FALSE, fs |-> fs]
    ELSE [ok |-> TRUE, fs |-> [fs EXCEPT ![p] = "dir"]]

\* source.open('rb') and self._path.open('wb'): [ok, fs]
open_wb(fs, src, p) ==
    IF fs[src] \in {"none", "dir"} THEN [ok |-> FALSE, fs |-> fs]
    ELSE IF p \notin Paths THEN [ok |-> FALSE, fs |-> fs]
    ELSE IF fs[p] = "dir" \/ fs[SubSeq(p, 1, Len(p) - 1)] # "dir"
    THEN [ok |-> FALSE, fs |-> fs]
    ELSE [ok |-> TRUE, fs |-> [fs EXCEPT ![p] = IF @ = "link" THEN "link" ELSE "file"]]

\* self._path.symlink_to(source.readlink()): [ok, fs]
symlink_to(fs, p) ==
    IF p \notin Paths THEN [ok |-> FALSE, fs |-> fs]
    ELSE IF fs[p] # "none" \/ fs[SubSeq(p, 1, Len(p) - 1)] # "dir"
    THEN [ok |-> FALSE, fs |-> fs]
    ELSE [ok |-> TRUE, fs |-> [fs EXCEPT ![p] = "link"]]

\* the calls _create_dir makes for the children: each one straight to a
\* _create_* method of the child's target, dst = self._path.joinpath(src.name)
_create_dir(task, children) ==
    [i \in 1..Len(children) |->
        [src |-> children[i], dst |-> Append(task.dst, children[i][Len(children[i])])]]

Event(ev, path) == [ev |-> ev, path |-> path]

NoCall ==
    [n |-> 0, op |-> "", source |-> <<>>, target |-> <<>>, follow_symlinks |-> TRUE,
     dirs_exist_ok |-> FALSE, stack |-> <<>>, refused |-> 0]

InitPath ==
    /\ pg = PermuteIdle
    /\ dsl = DSLParser
    /\ clinic = Clinic(TRUE, FALSE)
    /\ block = Block(<<>>)
    /\ line = NoLine
    /\ err = ""
    /\ hist = <<>>
    /\ pc = "idle"
    /\ files \in PathTrees
    /\ run = [call |-> NoCall, fs0 |-> files]

\* the call raises: nothing more of it runs
Raise(e, path) ==
    /\ err' = e
    /\ pc' = "raised"
    /\ hist' = Append(hist, Event("raise", path))

\* CopyWorker.__call__ (PathBase.copy) or PathBase.move is called
Call ==
    /\ pc \in {"idle", "raised", "returned"}
    /\ run.call.n < MaxCalls
    /\ \E op \in {"copy", "move"}, s, t \in CallPaths, f, d \in BOOLEAN :
          /\ op = "move" => (~f /\ ~d)
          /\ run' = [call |-> [run.call EXCEPT !.n = @ + 1, !.op = op, !.source = s,
                                               !.target = t, !.follow_symlinks = f,
                                               !.dirs_exist_ok = d, !.stack = <<>>],
                     fs0 |-> files]
    /\ hist' = <<>>
    /\ err' = ""
    /\ pc' = "_create"
    /\ UNCHANGED <<pg, dsl, clinic, block, line, files>>

\* CopyWorker._create: the check of the two paths, then the branch
Create ==
    /\ pc = "_create"
    /\ \E e \in {_ensure_distinct_path(run.call.target, run.call.source)} :
          IF e # ""
          THEN /\ err' = "EINVAL"
               /\ pc' = "raised"
               /\ hist' = hist \o <<Event("check", run.call.target),
                                    Event("raise", run.call.target)>>
               /\ run' = [run EXCEPT !.call.refused = 1]
          ELSE /\ hist' = Append(hist, Event("check", run.call.target))
               /\ run' = [run EXCEPT !.call.stack =
                                        <<[src |-> run.call.source, dst |-> run.call.target]>>]
               /\ pc' = "copying"
               /\ err' = err
    /\ UNCHANGED <<pg, dsl, clinic, block, line, files>>

TaskAhead == Head(run.call.stack)

BranchAhead ==
    IF pc = "copying" /\ run.call.stack # <<>>
    THEN Branch(files, TaskAhead.src, run.call.follow_symlinks)
    ELSE "none"

\* CopyWorker._create_dir up to its loop; the turns of the loop are the
\* calls put on the stack
CreateDir ==
    /\ BranchAhead = "dir"
    /\ \E children \in Orders(iterdir(files, TaskAhead.src)) :
       \E raises \in BOOLEAN :
       \E r \in {mkdir(files, TaskAhead.dst, run.call.dirs_exist_ok)} :
          IF raises \/ ~r.ok
          THEN Raise("OSError", TaskAhead.dst) /\ UNCHANGED <<files, run>>
          ELSE /\ files' = r.fs
               /\ hist' = Append(hist, Event("mkdir", TaskAhead.dst))
               /\ run' = [run EXCEPT !.call.stack =
                                        _create_dir(TaskAhead, children) \o Tail(@)]
               /\ UNCHANGED <<pc, err>>
    /\ UNCHANGED <<pg, dsl, clinic, block, line>>

\* CopyWorker._create_file; the copy may fail before or after the target
\* was opened for writing
CreateFile ==
    /\ BranchAhead = "file"
    /\ \E raises \in {"no", "before", "after"} :
       \E r \in {open_wb(files, TaskAhead.src, TaskAhead.dst)} :
          IF raises = "before" \/ ~r.ok
          THEN Raise("OSError", TaskAhead.dst) /\ UNCHANGED <<files, run>>
          ELSE IF raises = "after"
          THEN /\ files' = r.fs
               /\ err' = "OSError"
               /\ pc' = "raised"
               /\ hist' = hist \o <<Event("write", TaskAhead.dst),
                                    Event("raise", TaskAhead.dst)>>
               /\ UNCHANGED run
          ELSE /\ files' = r.fs
               /\ hist' = Append(hist, Event("write", TaskAhead.dst))
               /\ run' = [run EXCEPT !.call.stack = Tail(@)]
               /\ UNCHANGED <<pc, err>>
    /\ UNCHANGED <<pg, dsl, clinic, block, line>>

\* CopyWorker._create_symlink
CreateSymlink ==
    /\ BranchAhead = "symlink"
    /\ \E raises \in BOOLEAN :
       \E r \in {symlink_to(files, TaskAhead.dst)} :
          IF raises \/ ~r.ok
          THEN Raise("OSError", TaskAhead.dst) /\ UNCHANGED <<files, run>>
          ELSE /\ files' = r.fs
               /\ hist' = Append(hist, Event("symlink", TaskAhead.dst))
               /\ run' = [run EXCEPT !.call.stack = Tail(@)]
               /\ UNCHANGED <<pc, err>>
    /\ UNCHANGED <<pg, dsl, clinic, block, line>>

\* CopyWorker._create returns self._path
Return ==
    /\ pc = "copying"
    /\ run.call.stack = <<>>
    /\ hist' = Append(hist, Event("returned", run.call.target))
    /\ pc' = IF run.call.op = "move" THEN "_delete" ELSE "returned"
    /\ UNCHANGED <<pg, dsl, clinic, block, line, err, files, run>>

\* PathBase.move: self._delete(), then the target is returned
Delete ==
    /\ pc = "_delete"
    /\ \E raises \in BOOLEAN :
          IF raises
          THEN Raise("OSError", run.call.source) /\ UNCHANGED files
          ELSE /\ files' = [p \in Paths |-> IF Within(run.call.source, p) THEN "none"
                                            ELSE files[p]]
               /\ hist' = Append(hist, Event("delete", run.call.source))
               /\ pc' = "returned"
               /\ err' = err
    /\ UNCHANGED <<pg, dsl, clinic, block, line, run>>

NextPath == Call \/ Create \/ CreateDir \/ CreateFile \/ CreateSymlink \/ Return \/ Delete

SpecPath == InitPath /\ [][NextPath]_vars

Events(ev) == {i \in 1..Len(hist) : hist[i].ev = ev}

\* C40: move deletes the source only after the copy has returned, and never
\* after the copy raised; a call whose source is the target or one of the
\* target's lexical parents raises OSError(EINVAL) with the file system as
\* it was before the call; and the check of the two paths is made once per
\* call, however many directories the copy goes down into
C40_CopyThenDelete ==
    /\ \A i \in Events("delete") :
          /\ run.call.op = "move"
          /\ \E j \in Events("returned") : j < i
          /\ \A k \in 1..(i - 1) : hist[k].ev # "raise"
    /\ (pc \in {"copying", "_delete", "raised", "returned"}
            /\ Within(run.call.source, run.call.target))
          => /\ pc = "raised"
             /\ err = "EINVAL"
             /\ files = run.fs0
             /\ hist = <<Event("check", run.call.target), Event("raise", run.call.target)>>
    /\ Cardinality(Events("check")) = IF pc \in {"idle", "_create"} THEN 0 ELSE 1

\* a directory with a directory in it was moved, the source deleted last,
\* after an earlier call had been refused with EINVAL
C40_Witness ==
    /\ pc = "returned"
    /\ run.call.op = "move"
    /\ run.call.refused = 1
    /\ Cardinality(Events("mkdir")) >= 2
    /\ Events("write") # {}
    /\ hist[Len(hist)].ev = "delete"
    /\ files[run.call.source] = "none"

====
